---- MODULE Spec2Model ----
(***************************************************************************)
(* Model of the agent-orchestration engine of the repository:              *)
(*   - FileSystemTools.readFile / writeFile and the session's recentFiles   *)
(*     list (src/src/index.ts),                                            *)
(*   - ModeManager, the mode gate and plan lifecycle manager                *)
(*     (src/unnamed/part_000),                                             *)
(*   - ClineAgent.createPlan, the create_plan tool (src/src/core/agent.ts), *)
(*   - ClineAgent.processMessage, the turn loop with its tool dispatch      *)
(*     (src/src/core/agent.ts),                                            *)
(*   - ClineAgent.getAIResponse, the extraction of tool calls from the      *)
(*     model text (src/src/core/agent.ts),                                 *)
(*   - ConfirmationSystem, the confirmation gate (src/unnamed/part_001),   *)
(*   - ConfigManager and the toggle-auto-approve command                    *)
(*     (src/unnamed/part_002, src/test-filesystem.js),                      *)
(*   - CLICommands, the wiring of agent and ModeManager                     *)
(*     (src/test-filesystem.js).                                            *)
(***************************************************************************)
EXTENDS Integers, Sequences, FiniteSets, TLC

\* ------------------------------------------------------------------ bounds
\* number of plan ids generatePlanId may hand out in one run
MaxPlans == 2
\* number of steps the plans of the store hold together
MaxSteps == 2
\* file paths that exist beyond the capacity of recentFiles
ExtraPaths == 1
\* successful readFile and writeFile calls in one run
MaxTouches == 13
\* messages the conversation history holds in one run
MaxMessages == 5
\* tool calls the model issues in one run
MaxCalls == 2
\* elements of the array a TOOL_CALLS block carries
MaxElements == 2
\* tool call ids generated in one run
MaxIds == 3
\* the latest value Date.now() takes in one run
MaxClock == 1
\* invocations of the interactive prompt in one run
MaxPrompts == 2
\* steps of the plan whose progress is asked for
MaxTotal == 200

\* ------------------------------------------------------- program constants
\* context.recentFiles.slice(0, 10)
RecentCapacity == 10
\* displayToolAction: value.length > 100, value.substring(0, 100)
PreviewLength == 100

\* ------------------------------------------------------------ input sets
Paths == 1 .. (RecentCapacity + ExtraPaths)
Modes == {"plan", "act"}
PlanIds == 1 .. MaxPlans
\* plan ids callers may pass: an id not generated yet, or rejected, is unknown
PlanIdArgs == PlanIds
\* step ids: createPlan is called with steps whose ids are distinct, step i of
\* the list carrying id i
StepIds == 1 .. MaxSteps
\* the PlanStep.type values of the declaration
StepTypes == {"analysis", "file_operation", "command", "confirmation"}
\* the types steps are created with: one declared type and one outside the
\* declaration (the payload of create_plan is untyped)
StepTypeArgs == {"command", "deploy"}
StepArgs == [id : StepIds, type : StepTypeArgs, completed : BOOLEAN]
RECURSIVE SeqsUpTo(_, _)
SeqsUpTo(S, n) ==
  IF n = 0 THEN {<< >>}
  ELSE LET shorter == SeqsUpTo(S, n - 1)
       IN shorter \cup {Append(s, x) : s \in {t \in shorter : Len(t) = n - 1}, x \in S}
StepLists == {s \in SeqsUpTo(StepArgs, MaxSteps) : \A i \in DOMAIN s : s[i].id = i}
\* an optional value of the untyped planData: << >> is undefined, <<v>> is v
Titles == {"", "demo"}
OptStrings == {<< >>} \cup {<<t>> : t \in Titles}
\* planData with every field usable
ValidPlanDatas == [title : {<<"demo">>}, description : {<<"demo">>},
                   steps : {<<s>> : s \in StepLists}]
\* planData with exactly one field undefined or empty
InvalidPlanDatas ==
  {pd \in [title : OptStrings, description : OptStrings,
           steps : {<< >>, << << >> >>}] :
     Cardinality({f \in {"title", "description"} : pd[f] # <<"demo">>})
       + (IF pd.steps = << >> THEN 1 ELSE 0) = 1}
PlanDatas == ValidPlanDatas \cup InvalidPlanDatas
\* the operation types validateModeForOperation names
MutatingOperations == {"file_write", "file_modify", "file_delete", "command_execute"}
ReadOperations == {"file_read", "file_list", "file_search"}
\* the operation types callers pass: the argument is a string, so one value
\* outside the named ones is included
Operations == MutatingOperations \cup ReadOperations \cup {"network_request"}
\* the tools of the agent that the turn loop is modelled with
ToolNames == {"read_file", "write_file", "modify_file", "delete_file", "execute_command"}
\* the file every modelled file tool call names
ToolPath == 1
\* toolCall.function.arguments, the value of JSON.stringify(call.arguments):
\* "object" is the text of an object with the tool's parameters, "null" the
\* text null, "undefined" the value undefined (call.arguments was missing)
ArgumentPayloads == {"object", "null", "undefined"}
\* the calls the model issues: every tool with usable arguments, a tool the
\* agent does not have, and write_file with the two unusable payloads
ToolCalls ==
  {c \in [name : ToolNames \cup {"no_such_tool"}, arguments : ArgumentPayloads] :
     c.arguments # "object" => c.name = "write_file"}
\* the call lists of one response
Batches == SeqsUpTo(ToolCalls, MaxCalls)
\* the call lists of a response whose calls are not looked at
FinalBatches == SeqsUpTo(ToolCalls, 1)

VARIABLES
  recentFiles,      \* AgentContext.recentFiles
  disk,             \* the paths that exist under the working directory
  touches,          \* the number of successful readFile and writeFile calls
  ctxMode,          \* AgentContext.currentMode held by ClineAgent
  agentModeManager, \* whether ClineAgent.modeManager is defined
  currentMode,      \* ModeManager.currentMode
  executionPlans,   \* ModeManager.executionPlans: plan id -> ExecutionPlan
  activePlanId,     \* ModeManager.activePlanId, 0 is null
  nextPlanId,       \* the next id generatePlanId returns
  conversationHistory, \* AgentContext.conversationHistory
  pc,               \* where processMessage stands: idle when no turn runs
  response,         \* processMessage's local "response", once it has calls
  toolResults,      \* executeToolCalls' local "results"
  running,          \* index of the call whose executor is awaited, 0 if none
  returned,         \* how the last processMessage call ended
  text,             \* the model text of the last getAIResponse call
  extracted,        \* what that call returned: narrative and tool calls
  clock,            \* the last value read from Date.now()
  emitted,          \* the ids of all tool calls generated so far, in order
  autoApprove,      \* ConfirmationSystem.autoApprove
  prompts,          \* the number of inquirer.prompt invocations so far
  rendered,         \* the arguments displayToolAction printed last
  savedFiles,       \* the conversation files on disk, by path
  processEnv,       \* process.env: the variables the ConfigManager reads
  configFile,       \* ~/.cline-cli/config.json: whether it exists, its data
  config,           \* ConfigManager.config
  loading,          \* where the loadConfig() call of the constructor stands
  command,          \* where the toggle-auto-approve command stands
  last              \* the last call made: its name, arguments and outcome

vars == <<recentFiles, disk, touches, ctxMode, agentModeManager, currentMode,
          executionPlans, activePlanId, nextPlanId, conversationHistory, pc,
          response, toolResults, running, returned, text, extracted, clock,
          emitted, autoApprove, prompts, rendered, savedFiles, processEnv,
          configFile, config, loading, command, last>>
turnVars == <<conversationHistory, pc, response, toolResults, running, returned>>
extractVars == <<text, extracted, clock, emitted>>
confirmVars == <<autoApprove, prompts, rendered>>
configVars == <<processEnv, configFile, config, loading, command>>
fileVars == <<recentFiles, disk, touches>>
planVars == <<currentMode, executionPlans, activePlanId, nextPlanId>>

\* --------------------------------------------------------------- helpers
Min(S) == CHOOSE x \in S : \A y \in S : x <= y
Includes(seq, x) == \E i \in DOMAIN seq : seq[i] = x
\* Array.prototype.slice(0, n)
Slice0(seq, n) == IF Len(seq) <= n THEN seq ELSE SubSeq(seq, 1, n)
\* Array.prototype.unshift(x)
Unshift(seq, x) == <<x>> \o seq
\* Map.prototype.delete(k)
MapDelete(m, k) == [j \in (DOMAIN m) \ {k} |-> m[j]]
\* the number of steps held by the plans of a store
RECURSIVE StoredSteps(_)
StoredSteps(m) ==
  IF DOMAIN m = {} THEN 0
  ELSE LET k == Min(DOMAIN m) IN Len(m[k].steps) + StoredSteps(MapDelete(m, k))
\* Map.prototype.set(k, v)
MapSet(m, k, v) == [j \in (DOMAIN m) \cup {k} |-> IF j = k THEN v ELSE m[j]]

\* what is recorded of the arguments of a plan creation: whether a field was
\* undefined or empty, and whether a supplied step carried completed = true
NoArg == [missing |-> FALSE, carried |-> FALSE]
\* the record of a call: its name, its plan id, step id and path arguments (0
\* when it has none), whether it returned true or a successful ToolResult, the
\* error it threw or returned, and whether it invoked executeStepLogic
Call(op, planId, stepId, path, ok, err, ran, arg) ==
  [op |-> op, planId |-> planId, stepId |-> stepId,
   path |-> path, ok |-> ok, err |-> err, ran |-> ran, arg |-> arg]

\* ------------------------------------------------- FileSystemTools (MRU)
addRecent_noIncludes(rf, filePath) == Slice0(Unshift(rf, filePath), RecentCapacity)
\* "Add to recent files": if (!includes) { unshift; slice(0, 10) }
addRecent(rf, filePath) ==
  IF ~Includes(rf, filePath)
  THEN Slice0(Unshift(rf, filePath), RecentCapacity)
  ELSE rf

\* readFile(filePath, context): fails when the path does not exist or the read
\* throws; on success touches recentFiles
readFile(filePath) ==
  /\ \E readOk \in BOOLEAN :
       LET ok == filePath \in disk /\ readOk IN
       /\ ok => touches < MaxTouches
       /\ touches' = IF ok THEN touches + 1 ELSE touches
       /\ recentFiles' = IF ok THEN addRecent(recentFiles, filePath) ELSE recentFiles
       /\ last' = Call("readFile", 0, 0, filePath, ok,
                       IF filePath \notin disk THEN "File does not exist"
                       ELSE IF ok THEN "" ELSE "Failed to read file",
                       FALSE, NoArg)
  /\ UNCHANGED <<configVars, disk, turnVars, extractVars, confirmVars, savedFiles, ctxMode, agentModeManager, planVars>>

\* writeFile(filePath, content, context): creates or overwrites the file, then
\* touches recentFiles; an exception of the file system leaves both alone.
\* New paths are named in the order of their first write.
writeFile(filePath) ==
  /\ filePath \in disk \/ filePath = Cardinality(disk) + 1
  /\ \E writeOk \in BOOLEAN :
       /\ writeOk => touches < MaxTouches
       /\ touches' = IF writeOk THEN touches + 1 ELSE touches
       /\ disk' = IF writeOk THEN disk \cup {filePath} ELSE disk
       /\ recentFiles' = IF writeOk THEN addRecent(recentFiles, filePath) ELSE recentFiles
       /\ last' = Call("writeFile", 0, 0, filePath, writeOk,
                       IF writeOk THEN "" ELSE "Failed to write file", FALSE, NoArg)
  /\ UNCHANGED <<configVars, turnVars, extractVars, confirmVars, savedFiles, ctxMode, agentModeManager, planVars>>

\* ------------------------------------------------------------ ModeManager
isInPlanMode_never == FALSE
isInPlanMode == currentMode = "plan"

isInActMode == currentMode = "act"

\* switchMode(newMode): sets currentMode; the context it then writes to is the
\* copy returned by ClineAgent.getContext ({ ...this.context }), so the
\* agent's own context.currentMode is not written
switchMode(newMode) ==
  /\ currentMode' = newMode
  /\ last' = Call("switchMode", 0, 0, 0, TRUE, "", FALSE, NoArg)
  /\ UNCHANGED <<configVars, fileVars, turnVars, extractVars, confirmVars, savedFiles, ctxMode, agentModeManager, executionPlans,
                 activePlanId, nextPlanId>>

resetSteps_keep(steps) == steps
\* steps.map(step => ({ ...step, completed: false }))
resetSteps(steps) == [i \in DOMAIN steps |-> [steps[i] EXCEPT !.completed = FALSE]]

\* the plan object built by ModeManager.createPlan
newPlan(title, description, steps) ==
  [title |-> title, description |-> description, steps |-> resetSteps(steps),
   approved |-> FALSE]

\* ModeManager.createPlan(title, description, steps): the store after
\* executionPlans.set(plan.id, plan), id being the value of generatePlanId()
createPlan(plans, id, title, description, steps) ==
  MapSet(plans, id, newPlan(title, description, steps))

\* !planData.title || !planData.description || !planData.steps
\* (undefined and the empty string are falsy, every array is truthy)
Falsy(opt) == opt = << >> \/ opt = <<"">>
planDataInvalid(planData) ==
  Falsy(planData.title) \/ Falsy(planData.description) \/ planData.steps = << >>

\* ClineAgent.createPlan(planData), the executor of the create_plan tool
agentCreatePlan(planData) ==
  LET arg == [missing |-> \/ planData.title \in {<< >>, <<"">>}
                          \/ planData.description \in {<< >>, <<"">>}
                          \/ planData.steps = << >>,
              carried |-> /\ planData.steps # << >>
                          /\ \E i \in DOMAIN planData.steps[1] :
                               planData.steps[1][i].completed]
  IN
  /\ \/ /\ planDataInvalid(planData)
        /\ last' = Call("create_plan", 0, 0, 0, FALSE, "Invalid plan data", FALSE, arg)
        /\ UNCHANGED <<executionPlans, nextPlanId>>
     \/ /\ ~planDataInvalid(planData)
        /\ ~agentModeManager
        \* this.modeManager is undefined: the TypeError is caught
        /\ last' = Call("create_plan", 0, 0, 0, FALSE, "Failed to create plan", FALSE, arg)
        /\ UNCHANGED <<executionPlans, nextPlanId>>
     \/ /\ ~planDataInvalid(planData)
        /\ agentModeManager
        /\ nextPlanId <= MaxPlans
        /\ StoredSteps(executionPlans) + Len(planData.steps[1]) <= MaxSteps
        /\ executionPlans' = createPlan(executionPlans, nextPlanId, planData.title[1],
                                        planData.description[1], planData.steps[1])
        /\ nextPlanId' = nextPlanId + 1
        /\ last' = Call("create_plan", nextPlanId, 0, 0, TRUE, "", FALSE, arg)
  /\ UNCHANGED <<configVars, fileVars, turnVars, extractVars, confirmVars, savedFiles, ctxMode, agentModeManager, currentMode, activePlanId>>

approveActive_ifNone(active, planId) == IF active = 0 THEN planId ELSE active
\* this.activePlanId = planId
approveActive(active, planId) == planId

\* approvePlan(planId)
approvePlan(planId) ==
  /\ IF planId \notin DOMAIN executionPlans
     THEN /\ last' = Call("approvePlan", planId, 0, 0, FALSE, "Plan not found", FALSE, NoArg)
          /\ UNCHANGED <<executionPlans, activePlanId>>
     ELSE /\ executionPlans' = [executionPlans EXCEPT ![planId].approved = TRUE]
          /\ activePlanId' = approveActive(activePlanId, planId)
          /\ last' = Call("approvePlan", planId, 0, 0, TRUE, "", FALSE, NoArg)
  /\ UNCHANGED <<configVars, fileVars, turnVars, extractVars, confirmVars, savedFiles, ctxMode, agentModeManager, currentMode, nextPlanId>>

rejectActive_always(active, planId) == 0
rejectActive_keep(active, planId) == active
\* if (this.activePlanId === planId) { this.activePlanId = null; }
rejectActive(active, planId) == IF active = planId THEN 0 ELSE active

\* rejectPlan(planId)
rejectPlan(planId) ==
  /\ IF planId \notin DOMAIN executionPlans
     THEN /\ last' = Call("rejectPlan", planId, 0, 0, FALSE, "Plan not found", FALSE, NoArg)
          /\ UNCHANGED <<executionPlans, activePlanId>>
     ELSE /\ executionPlans' = MapDelete(executionPlans, planId)
          /\ activePlanId' = rejectActive(activePlanId, planId)
          /\ last' = Call("rejectPlan", planId, 0, 0, TRUE, "", FALSE, NoArg)
  /\ UNCHANGED <<configVars, fileVars, turnVars, extractVars, confirmVars, savedFiles, ctxMode, agentModeManager, currentMode, nextPlanId>>

findStep_first(steps, stepId) == IF steps = << >> THEN 0 ELSE 1
\* plan.steps.find(s => s.id === stepId): index of the first match, 0 if none
findStep(steps, stepId) ==
  LET hits == {i \in DOMAIN steps : steps[i].id = stepId}
  IN IF hits = {} THEN 0 ELSE Min(hits)

executeStepLogic_noDefault(step) == TRUE
\* executeStepLogic(step): TRUE when the switch on step.type returns, FALSE
\* when its default branch throws "Unknown step type"
executeStepLogic(step) ==
  CASE step.type = "analysis" -> TRUE
    [] step.type = "file_operation" -> TRUE
    [] step.type = "command" -> TRUE
    [] step.type = "confirmation" -> TRUE
    [] OTHER -> FALSE

planApproved_always(plan) == TRUE
planApproved_whileActive(plan) == plan.approved /\ activePlanId # 0
\* plan.approved, the test of "if (!plan.approved) throw"
planApproved(plan) == plan.approved

stepCompleted_never(step) == FALSE
\* step.completed, the test of "if (step.completed) return true"
stepCompleted(step) == step.completed

NoOutcome(err) == [ok |-> FALSE, err |-> err, ran |-> FALSE, done |-> 0]
stepOutcome_lookupFirst(plan, stepId) ==
  LET i == findStep(plan.steps, stepId) IN
  IF i = 0 THEN NoOutcome("Step not found")
  ELSE IF ~planApproved(plan) THEN NoOutcome("Plan must be approved before execution")
  ELSE IF stepCompleted(plan.steps[i]) \/ isInPlanMode
  THEN [ok |-> TRUE, err |-> "", ran |-> FALSE, done |-> 0]
  ELSE IF executeStepLogic(plan.steps[i])
  THEN [ok |-> TRUE, err |-> "", ran |-> TRUE, done |-> i]
  ELSE [ok |-> FALSE, err |-> "Step execution failed", ran |-> TRUE, done |-> 0]
\* the body of executePlanStep once the plan is found: whether it returns true,
\* the error it throws, whether executeStepLogic is invoked, and the index of
\* the step it sets completed (0 when none)
stepOutcome(plan, stepId) ==
  LET i == findStep(plan.steps, stepId) IN
  IF ~planApproved(plan) THEN NoOutcome("Plan must be approved before execution")
  ELSE IF i = 0 THEN NoOutcome("Step not found")
  ELSE IF stepCompleted(plan.steps[i])
  THEN [ok |-> TRUE, err |-> "", ran |-> FALSE, done |-> 0]
  ELSE IF isInPlanMode
  THEN [ok |-> TRUE, err |-> "", ran |-> FALSE, done |-> 0]
  ELSE IF executeStepLogic(plan.steps[i])
  THEN [ok |-> TRUE, err |-> "", ran |-> TRUE, done |-> i]
  ELSE [ok |-> FALSE, err |-> "Step execution failed", ran |-> TRUE, done |-> 0]

\* executePlanStep(planId, stepId)
executePlanStep(planId, stepId) ==
  /\ IF planId \notin DOMAIN executionPlans
     THEN /\ last' = Call("executePlanStep", planId, stepId, 0, FALSE, "Plan not found",
                          FALSE, NoArg)
          /\ UNCHANGED executionPlans
     ELSE LET out == stepOutcome(executionPlans[planId], stepId) IN
          /\ executionPlans' =
               IF out.done = 0 THEN executionPlans
               ELSE [executionPlans EXCEPT ![planId].steps[out.done].completed = TRUE]
          /\ last' = Call("executePlanStep", planId, stepId, 0, out.ok, out.err, out.ran, NoArg)
  /\ UNCHANGED <<configVars, fileVars, turnVars, extractVars, confirmVars, savedFiles, ctxMode, agentModeManager, currentMode, activePlanId, nextPlanId>>

allCompleted_some(plan) == \E i \in DOMAIN plan.steps : plan.steps[i].completed
\* plan.steps.every(step => step.completed)
allCompleted(plan) == \A i \in DOMAIN plan.steps : plan.steps[i].completed

\* completePlan(planId)
completePlan(planId) ==
  /\ IF planId \notin DOMAIN executionPlans
     THEN /\ last' = Call("completePlan", planId, 0, 0, FALSE, "Plan not found", FALSE, NoArg)
          /\ UNCHANGED activePlanId
     ELSE IF ~allCompleted(executionPlans[planId])
     THEN /\ last' = Call("completePlan", planId, 0, 0, FALSE, "Not all steps are completed",
                          FALSE, NoArg)
          /\ UNCHANGED activePlanId
     ELSE /\ activePlanId' = IF activePlanId = planId THEN 0 ELSE activePlanId
          /\ last' = Call("completePlan", planId, 0, 0, TRUE, "", FALSE, NoArg)
  /\ UNCHANGED <<configVars, fileVars, turnVars, extractVars, confirmVars, savedFiles, ctxMode, agentModeManager, currentMode, executionPlans, nextPlanId>>

percentage_floor(completed, total) ==
  IF total > 0 THEN (100 * completed) \div total ELSE 0
\* total > 0 ? Math.round((completed / total) * 100) : 0. Math.round rounds
\* to the nearest integer, a tie upwards. The double (completed / total) * 100
\* equals the exact value or lies next to it; for the ratios of BelowTie
\* (plans of up to 202 steps) the exact value is a tie and the double lies
\* below it, so that Math.round rounds downwards
percentage(completed, total) ==
  LET BelowTie == {<<23, 40>>, <<29, 200>>, <<57, 200>>, <<113, 200>>}
  IN IF total = 0 THEN 0
     ELSE IF \E r \in BelowTie : completed * r[2] = r[1] * total
     THEN (100 * completed) \div total
     ELSE (200 * completed + total) \div (2 * total)

\* getPlanProgress(planId): the record of the call carries the three numbers
\* returned
getPlanProgress(planId) ==
  /\ LET steps == IF planId \in DOMAIN executionPlans
                  THEN executionPlans[planId].steps ELSE << >>
         completed == Cardinality({i \in DOMAIN steps : steps[i].completed})
         total == Len(steps)
     IN last' = [op |-> "getPlanProgress", planId |-> planId, stepId |-> 0, path |-> 0,
                 ok |-> TRUE, err |-> "", ran |-> FALSE, arg |-> NoArg,
                 completed |-> completed, total |-> total,
                 percentage |-> percentage(completed, total)]
  /\ UNCHANGED <<configVars, fileVars, turnVars, extractVars, confirmVars, savedFiles, ctxMode,
                 agentModeManager, planVars>>

noActivePlan_never(active) == FALSE
\* !this.activePlanId, the test of "if (!this.activePlanId) return false"
noActivePlan(active) == active = 0

\* cancelActivePlan()
cancelActivePlan ==
  /\ IF noActivePlan(activePlanId)
     THEN /\ last' = Call("cancelActivePlan", 0, 0, 0, FALSE, "", FALSE, NoArg)
          /\ UNCHANGED activePlanId
     ELSE /\ activePlanId' = 0
          /\ last' = Call("cancelActivePlan", 0, 0, 0, TRUE, "", FALSE, NoArg)
  /\ UNCHANGED <<configVars, fileVars, turnVars, extractVars, confirmVars, savedFiles, ctxMode, agentModeManager, currentMode, executionPlans, nextPlanId>>

\* the record of a validateModeForOperation call: the record of a call with
\* the operation type it was given
Validation(operationType, ok) ==
  [op |-> "validateModeForOperation", planId |-> 0, stepId |-> 0, path |-> 0,
   ok |-> ok, err |-> "", ran |-> FALSE, arg |-> NoArg, operation |-> operationType]

modeAllows_open(operationType) == operationType \in ReadOperations \/ ~isInPlanMode
\* the value the switch of validateModeForOperation returns; no branch throws
modeAllows(operationType) ==
  CASE operationType \in MutatingOperations -> ~isInPlanMode
    [] operationType \in ReadOperations -> TRUE
    [] OTHER -> FALSE

\* validateModeForOperation(operationType)
validateModeForOperation(operationType) ==
  /\ last' = Validation(operationType, modeAllows(operationType))
  /\ UNCHANGED <<configVars, fileVars, turnVars, extractVars, confirmVars, savedFiles, ctxMode, agentModeManager, planVars>>

\* ---------------------------------------------- ClineAgent.processMessage
\* a message text. The user's text and the model's texts are arbitrary: they
\* are named by their origin and by the length of the history they were
\* written at, which makes the texts of one run pairwise distinct
Text(kind, n) == [kind |-> kind, n |-> n]
NoText == Text("none", 0)
\* `Sorry, I encountered an error: ${error}`
errorMessage == Text("error", 0)
\* new Date(): the Date objects of a session are told apart by the number of
\* messages the history held when they were created
Date(n) == [kind |-> "Date", ms |-> n]
\* a ConversationMessage; toolCalls and toolResults are << >> when absent
Message(role, content, calls, results) ==
  [role |-> role, content |-> content, timestamp |-> Date(Len(conversationHistory)),
   toolCalls |-> calls, toolResults |-> results]
\* a ToolResult
Succeeded == [success |-> TRUE, error |-> ""]
Failed(error) == [success |-> FALSE, error |-> error]
\* the local "response" of processMessage before the model has answered
NoResponse == [content |-> NoText, toolCalls |-> << >>]
\* how a processMessage call ended: the text it returned, or that it threw
Returned(value) == [raised |-> FALSE, value |-> value]
Pending == Returned(NoText)
\* the record of a step of the turn loop: the record of a call with the index
\* and the tool name of the tool call it is about (0 and "" when none)
TurnStep(op, index, name, ok, err, ran) ==
  [op |-> op, planId |-> 0, stepId |-> 0, path |-> 0, ok |-> ok, err |-> err,
   ran |-> ran, arg |-> NoArg, index |-> index, name |-> name]
\* the number of tool calls held by the messages of a history
RECURSIVE CallsIssued(_)
CallsIssued(history) ==
  IF history = << >> THEN 0
  ELSE Len(Head(history).toolCalls) + CallsIssued(Tail(history))

\* getAIResponse(): it throws "AI service error" when the model service or
\* the reading of its answer fails, else it returns the text and the call
\* list extracted from the answer
Responses(history, batches) ==
  {[fail |-> TRUE, content |-> NoText, toolCalls |-> << >>]} \cup
  {[fail |-> FALSE, content |-> Text("model", Len(history)), toolCalls |-> b] :
     b \in batches}

onError_rethrow(history) ==
  [history |-> history, returned |-> [raised |-> TRUE, value |-> NoText]]
onError_rollback(history) ==
  [history |->
     Append(IF history # << >> /\ history[Len(history)].toolCalls # << >>
            THEN SubSeq(history, 1, Len(history) - 1) ELSE history,
            Message("assistant", errorMessage, << >>, << >>)),
   returned |-> Returned(errorMessage)]
\* the catch block of processMessage
onError(history) ==
  [history |-> Append(history, Message("assistant", errorMessage, << >>, << >>)),
   returned |-> Returned(errorMessage)]

\* processMessage(userMessage) up to its first await: the user message is
\* pushed and the model is asked
processMessage(userMessage) ==
  /\ pc = "idle"
  /\ Len(conversationHistory) + 2 <= MaxMessages
  /\ conversationHistory' =
       Append(conversationHistory, Message("user", userMessage, << >>, << >>))
  /\ pc' = "first"
  /\ returned' = Pending
  /\ last' = TurnStep("processMessage", 0, "", TRUE, "", FALSE)
  /\ UNCHANGED <<configVars, fileVars, extractVars, confirmVars, savedFiles, ctxMode, agentModeManager, planVars, response,
                 toolResults, running>>

\* processMessage resumes with the outcome r of the first getAIResponse()
firstResponse(r) ==
  /\ pc = "first"
  /\ IF r.fail
     THEN /\ conversationHistory' = onError(conversationHistory).history
          /\ returned' = onError(conversationHistory).returned
          /\ pc' = "idle"
          /\ UNCHANGED response
     ELSE IF r.toolCalls # << >>
     THEN /\ CallsIssued(conversationHistory) + Len(r.toolCalls) <= MaxCalls
          /\ Len(conversationHistory) + 2 <= MaxMessages
          /\ response' = [content |-> r.content, toolCalls |-> r.toolCalls]
          /\ pc' = "tools"
          /\ UNCHANGED <<conversationHistory, returned>>
     ELSE /\ conversationHistory' =
               Append(conversationHistory, Message("assistant", r.content, << >>, << >>))
          /\ returned' = Returned(r.content)
          /\ pc' = "idle"
          /\ UNCHANGED response
  /\ last' = TurnStep("getAIResponse", 0, "", ~r.fail,
                      IF r.fail THEN "AI service error" ELSE "", FALSE)
  /\ UNCHANGED <<configVars, fileVars, extractVars, confirmVars, savedFiles, ctxMode, agentModeManager, planVars, toolResults, running>>

\* this.tools.find(t => t.name === toolCall.function.name)
toolKnown(name) == name \in ToolNames \cup {"create_plan"}
argsParse_always(arguments) == TRUE
\* JSON.parse(toolCall.function.arguments) returns: it throws on undefined
argsParse(arguments) == arguments # "undefined"

dispatchOf_gated(call) ==
  IF ~toolKnown(call.name) THEN "Unknown tool"
  ELSE IF ~argsParse(call.arguments) THEN "Tool execution failed"
  ELSE IF call.name # "read_file" /\ isInPlanMode THEN "Not allowed in plan mode"
  ELSE ""
\* the body of the loop of executeToolCalls up to tool.execute: the error of
\* the failed result it pushes, "" when it invokes the executor
dispatchOf(call) ==
  IF ~toolKnown(call.name) THEN "Unknown tool"
  ELSE IF ~argsParse(call.arguments) THEN "Tool execution failed"
  ELSE ""

\* tool.execute(args, this.context) on a session with files dk and recent
\* files rf: the ToolResult pushed and the session afterwards. The wrapper
\* throws on args = null (it reads args.path or args.command); the file
\* system itself does not fail here; whether a command succeeds is cmdOk.
runTool(call, dk, rf, cmdOk) ==
  LET same(result) == [result |-> result, disk |-> dk, recentFiles |-> rf] IN
  IF call.arguments = "null" THEN same(Failed("Tool execution failed"))
  ELSE CASE call.name = "read_file" ->
              IF ToolPath \in dk
              THEN [result |-> Succeeded, disk |-> dk,
                    recentFiles |-> addRecent(rf, ToolPath)]
              ELSE same(Failed("File does not exist"))
         [] call.name = "write_file" ->
              [result |-> Succeeded, disk |-> dk \cup {ToolPath},
               recentFiles |-> addRecent(rf, ToolPath)]
         [] call.name = "modify_file" ->
              IF ToolPath \in dk THEN same(Succeeded)
              ELSE same(Failed("File does not exist"))
         [] call.name = "delete_file" ->
              IF ToolPath \in dk
              THEN [result |-> Succeeded, disk |-> dk \ {ToolPath}, recentFiles |-> rf]
              ELSE same(Failed("File does not exist"))
         [] OTHER ->
              IF cmdOk THEN same(Succeeded) ELSE same(Failed("Command failed"))

\* tool.requiresApproval, the flag of the tool's registry entry; no statement
\* of executeToolCalls reads it
requiresApproval(toolName) ==
  toolName \in {"write_file", "modify_file", "delete_file", "execute_command",
                "execute_interactive_command", "run_tests"}

toolMessage_noResults(content, calls, results) ==
  Message("assistant", content, calls, << >>)
\* the assistant message processMessage pushes after executeToolCalls
toolMessage(content, calls, results) ==
  Message("assistant", content, calls, results)

\* what follows the push of a result: the loop goes on, or executeToolCalls
\* returns and processMessage pushes the assistant message and asks the model
\* again
afterResult(results) ==
  IF Len(results) = Len(response.toolCalls)
  THEN /\ conversationHistory' =
            Append(conversationHistory,
                   toolMessage(response.content, response.toolCalls, results))
       /\ pc' = "final"
       /\ response' = NoResponse
       /\ toolResults' = << >>
  ELSE /\ toolResults' = results
       /\ UNCHANGED <<conversationHistory, pc, response>>

mayDispatch_always(awaited) == TRUE
\* the loop of executeToolCalls takes the next call only when no executor is
\* awaited: "await tool.execute(...)" inside "for (const toolCall of ...)"
mayDispatch(awaited) == awaited = 0

\* one iteration of the loop of executeToolCalls, up to the await
dispatchToolCall ==
  /\ pc = "tools"
  /\ mayDispatch(running)
  /\ LET \* the position of the loop: the calls that have a result or are awaited
         i == Len(toolResults) + (IF running = 0 THEN 0 ELSE 1) + 1
         call == response.toolCalls[i]
         error == dispatchOf(call)
     IN /\ i <= Len(response.toolCalls)
        /\ IF error = ""
           THEN /\ running' = i
                /\ last' = TurnStep("dispatchToolCall", i, call.name, TRUE, "", TRUE)
                /\ UNCHANGED <<conversationHistory, pc, response, toolResults>>
           ELSE /\ afterResult(Append(toolResults, Failed(error)))
                /\ last' = TurnStep("dispatchToolCall", i, call.name, FALSE, error, FALSE)
                /\ UNCHANGED running
  /\ UNCHANGED <<configVars, fileVars, extractVars, confirmVars, savedFiles, ctxMode, agentModeManager, planVars, returned>>

\* the awaited executor of a file tool or of the terminal tool returns or
\* throws and its result is pushed
toolReturns ==
  /\ pc = "tools"
  /\ running # 0
  /\ response.toolCalls[running].name # "create_plan"
  /\ \E cmdOk \in BOOLEAN :
       LET call == response.toolCalls[running]
           out == runTool(call, disk, recentFiles, cmdOk)
       IN /\ disk' = out.disk
          /\ recentFiles' = out.recentFiles
          /\ afterResult(Append(toolResults, out.result))
          /\ last' = TurnStep("toolReturns", running, call.name, out.result.success,
                              out.result.error, TRUE)
  /\ running' = 0
  /\ UNCHANGED <<configVars, touches, extractVars, confirmVars, savedFiles, ctxMode, agentModeManager, planVars, returned>>

\* the awaited executor of create_plan, "execute: async (args) =>
\* this.createPlan(args)", returns and its result is pushed; planData is the
\* value JSON.parse gave for the arguments of the call. The record of the step
\* carries the plan id of the result's data, 0 when the result has none.
createPlanReturns ==
  /\ pc = "tools"
  /\ running # 0
  /\ response.toolCalls[running].name = "create_plan"
  /\ LET planData == response.toolCalls[running].planData
         step(ok, err, id) ==
           [TurnStep("toolReturns", running, "create_plan", ok, err, TRUE)
              EXCEPT !.planId = id]
     IN IF planDataInvalid(planData)
        THEN /\ afterResult(Append(toolResults, Failed("Invalid plan data")))
             /\ last' = step(FALSE, "Invalid plan data", 0)
             /\ UNCHANGED <<executionPlans, nextPlanId>>
        ELSE IF ~agentModeManager
        \* this.modeManager is undefined: the TypeError is caught
        THEN /\ afterResult(Append(toolResults, Failed("Failed to create plan")))
             /\ last' = step(FALSE, "Failed to create plan", 0)
             /\ UNCHANGED <<executionPlans, nextPlanId>>
        ELSE /\ nextPlanId <= MaxPlans
             /\ StoredSteps(executionPlans) + Len(planData.steps[1]) <= MaxSteps
             /\ executionPlans' = createPlan(executionPlans, nextPlanId, planData.title[1],
                                             planData.description[1], planData.steps[1])
             /\ nextPlanId' = nextPlanId + 1
             /\ afterResult(Append(toolResults,
                                  [success |-> TRUE, error |-> "", planId |-> nextPlanId]))
             /\ last' = step(TRUE, "", nextPlanId)
  /\ running' = 0
  /\ UNCHANGED <<configVars, fileVars, extractVars, confirmVars, savedFiles, ctxMode, agentModeManager,
                 currentMode, activePlanId, returned>>

\* the history getAIResponse hands to startChat, after the system prompt and
\* its acknowledgement: of each message the role, as the service names it,
\* and the content
chatHistory(history) ==
  [i \in DOMAIN history |->
     [role |-> IF history[i].role = "assistant" THEN "model" ELSE "user",
      parts |-> history[i].content]]

\* the record of the second getAIResponse of a turn: the record of a step with
\* the number of calls the response carried and the history sent to the model
FinalStep(r) ==
  [op |-> "getAIResponse", planId |-> 0, stepId |-> 0, path |-> 0, ok |-> ~r.fail,
   err |-> IF r.fail THEN "AI service error" ELSE "", ran |-> FALSE, arg |-> NoArg,
   index |-> 0, name |-> "", calls |-> Len(r.toolCalls),
   input |-> chatHistory(conversationHistory)]

finalCalls_dispatched(r) == r.toolCalls
\* the calls of the second response that processMessage passes to
\* executeToolCalls: none, it reads finalResponse.content only
finalCalls(r) == << >>

\* processMessage resumes with the outcome r of the second getAIResponse()
finalResponse(r) ==
  /\ pc = "final"
  /\ IF r.fail
     THEN /\ conversationHistory' = onError(conversationHistory).history
          /\ returned' = onError(conversationHistory).returned
          /\ pc' = "idle"
          /\ UNCHANGED response
     ELSE IF finalCalls(r) # << >>
     THEN /\ response' = [content |-> r.content, toolCalls |-> finalCalls(r)]
          /\ pc' = "tools"
          /\ UNCHANGED <<conversationHistory, returned>>
     ELSE /\ conversationHistory' =
               Append(conversationHistory, Message("assistant", r.content, << >>, << >>))
          /\ returned' = Returned(r.content)
          /\ pc' = "idle"
          /\ UNCHANGED response
  /\ last' = FinalStep(r)
  /\ UNCHANGED <<configVars, fileVars, extractVars, confirmVars, savedFiles, ctxMode, agentModeManager, planVars, toolResults, running>>

\* ------------------------------- ClineAgent.getAIResponse: call extraction
\* A model text is a sequence of tokens: the two markers, the JSON
\* punctuation, the literal null, a space, and atoms. The atoms are a word of narrative, JSON
\* strings, JSON members with a string value ("name":"read_file") and JSON
\* member keys that are followed by their value ("arguments":).
IsSpace(tok) == tok = " "
StrAtoms == {"'a'", "'b'"}
KVAtoms == {"name:read_file", "name:write_file", "path:a", "id:model_id", "title:demo"}
KeyAtoms == {"arguments:", "files:", "items:"}
AtomKey(tok) ==
  CASE tok \in {"name:read_file", "name:write_file"} -> "name"
    [] tok = "path:a" -> "path"
    [] tok = "id:model_id" -> "id"
    [] tok = "title:demo" -> "title"
    [] tok = "arguments:" -> "arguments"
    [] tok = "files:" -> "files"
    [] tok = "items:" -> "items"
AtomVal(tok) ==
  CASE tok = "name:read_file" -> "read_file"
    [] tok = "name:write_file" -> "write_file"
    [] tok = "path:a" -> "a"
    [] tok = "id:model_id" -> "model_id"
    [] tok = "title:demo" -> "demo"
    [] tok = "'a'" -> "a"
    [] tok = "'b'" -> "b"

\* JSON values
Str(v) == [kind |-> "str", v |-> v]
Arr(items) == [kind |-> "arr", items |-> items]
Obj(members) == [kind |-> "obj", members |-> members]
Member(key, val) == [key |-> key, val |-> val]
Null == [kind |-> "null"]
\* the value of a property that is missing
Undefined == [kind |-> "undefined"]

\* the index of the first token at or after i that is not a space
RECURSIVE SkipSpaces(_, _)
SkipSpaces(s, i) ==
  IF i <= Len(s) /\ IsSpace(s[i]) THEN SkipSpaces(s, i + 1) ELSE i
\* the token at i, "" past the end
At(s, i) == IF i \in DOMAIN s THEN s[i] ELSE ""

\* JSON.parse on tokens, by recursive descent: ParseValue(s, i) reads one
\* value that starts at or after i and returns it with the index after it.
\* A result that is used more than once is bound as the element of a
\* singleton set, which evaluates it once.
NoParse == [ok |-> FALSE, val |-> Undefined, next |-> 0]
RECURSIVE ParseValue(_, _), ParseMembers(_, _, _), ParseItems(_, _, _)
ParseValue(s, i) ==
  LET j == SkipSpaces(s, i)
      tok == At(s, j)
  IN IF tok \in StrAtoms THEN [ok |-> TRUE, val |-> Str(AtomVal(tok)), next |-> j + 1]
     ELSE IF tok = "null" THEN [ok |-> TRUE, val |-> Null, next |-> j + 1]
     ELSE IF tok = "{"
     THEN IF At(s, SkipSpaces(s, j + 1)) = "}"
          THEN [ok |-> TRUE, val |-> Obj(<< >>), next |-> SkipSpaces(s, j + 1) + 1]
          ELSE ParseMembers(s, j + 1, << >>)
     ELSE IF tok = "["
     THEN IF At(s, SkipSpaces(s, j + 1)) = "]"
          THEN [ok |-> TRUE, val |-> Arr(<< >>), next |-> SkipSpaces(s, j + 1) + 1]
          ELSE ParseItems(s, j + 1, << >>)
     ELSE NoParse
\* the members of an object from i on, after the members read so far
ParseMembers(s, i, read) ==
  LET j == SkipSpaces(s, i)
      tok == At(s, j)
      member == IF tok \in KVAtoms
                THEN {[ok |-> TRUE, val |-> Member(AtomKey(tok), Str(AtomVal(tok))),
                       next |-> j + 1]}
                ELSE IF tok \in KeyAtoms
                THEN {[ok |-> v.ok, val |-> Member(AtomKey(tok), v.val), next |-> v.next] :
                        v \in {ParseValue(s, j + 1)}}
                ELSE {NoParse}
  IN CHOOSE result \in
       {LET k == SkipSpaces(s, one.next)
        IN IF ~one.ok THEN NoParse
           ELSE IF At(s, k) = "," THEN ParseMembers(s, k + 1, Append(read, one.val))
           ELSE IF At(s, k) = "}"
           THEN [ok |-> TRUE, val |-> Obj(Append(read, one.val)), next |-> k + 1]
           ELSE NoParse : one \in member} : TRUE
\* the items of an array from i on, after the items read so far
ParseItems(s, i, read) ==
  CHOOSE result \in
    {LET k == SkipSpaces(s, one.next)
     IN IF ~one.ok THEN NoParse
        ELSE IF At(s, k) = "," THEN ParseItems(s, k + 1, Append(read, one.val))
        ELSE IF At(s, k) = "]"
        THEN [ok |-> TRUE, val |-> Arr(Append(read, one.val)), next |-> k + 1]
        ELSE NoParse : one \in {ParseValue(s, i)}} : TRUE
\* JSON.parse(s): the whole of s is one value, spaces around it allowed
JSONparse(s) ==
  CHOOSE result \in
    {IF p.ok /\ SkipSpaces(s, p.next) = Len(s) + 1 THEN p ELSE NoParse :
       p \in {ParseValue(s, 1)}} : TRUE

\* JSON.stringify(value); << >> stands for the result undefined
RECURSIVE JSONstringify(_), JoinValues(_), JoinMembers(_)
JSONstringify(value) ==
  CASE value.kind = "str" -> <<CHOOSE tok \in StrAtoms : AtomVal(tok) = value.v>>
    [] value.kind = "arr" -> <<"[">> \o JoinValues(value.items) \o <<"]">>
    [] value.kind = "obj" -> <<"{">> \o JoinMembers(value.members) \o <<"}">>
    [] value.kind = "null" -> <<"null">>
    [] OTHER -> << >>
JoinValues(items) ==
  IF items = << >> THEN << >>
  ELSE JSONstringify(Head(items)) \o
       (IF Len(items) = 1 THEN << >> ELSE <<",">> \o JoinValues(Tail(items)))
JoinMembers(members) ==
  IF members = << >> THEN << >>
  ELSE LET m == Head(members)
           one == IF m.val.kind = "str"
                  THEN <<CHOOSE tok \in KVAtoms :
                           AtomKey(tok) = m.key /\ AtomVal(tok) = m.val.v>>
                  ELSE <<CHOOSE tok \in KeyAtoms : AtomKey(tok) = m.key>> \o
                       JSONstringify(m.val)
       IN one \o (IF Len(members) = 1 THEN << >> ELSE <<",">> \o JoinMembers(Tail(members)))

\* value.key for a parsed value: the value of the last member with that key
Property(value, key) ==
  IF value.kind = "obj" /\ \E i \in DOMAIN value.members : value.members[i].key = key
  THEN value.members[CHOOSE i \in DOMAIN value.members :
                       /\ value.members[i].key = key
                       /\ \A j \in DOMAIN value.members :
                            value.members[j].key = key => j <= i].val
  ELSE Undefined

\* String.prototype.trim()
RECURSIVE TrimEnd(_)
TrimEnd(s) == IF s # << >> /\ IsSpace(s[Len(s)]) THEN TrimEnd(SubSeq(s, 1, Len(s) - 1)) ELSE s
Trim(s) == LET t == TrimEnd(s) IN SubSeq(t, SkipSpaces(t, 1), Len(t))
\* s without the tokens from..to
Cut(s, from, to) == SubSeq(s, 1, from - 1) \o SubSeq(s, to + 1, Len(s))
Indices(s, tok) == {i \in DOMAIN s : s[i] = tok}
NoMatch == [found |-> FALSE, from |-> 0, to |-> 0, group |-> << >>]

\* /TOOL_CALLS:(\s*\[\s*{[^\]]*?}\s*\])/s tried at the marker at i: after
\* "[" and "{" the match runs to the first "]", which a "}" must precede
toolCallsBlockAt(s, i) ==
  LET j == SkipSpaces(s, i + 1)
      k == SkipSpaces(s, j + 1)
      closing == {f \in Indices(s, "]") : f > k}
  IN IF At(s, j) # "[" \/ At(s, k) # "{" \/ closing = {} THEN NoMatch
     ELSE LET f == Min(closing)
              e == CHOOSE e \in k .. f - 1 :
                     /\ ~IsSpace(s[e])
                     /\ \A x \in e + 1 .. f - 1 : IsSpace(s[x])
          IN IF e > k /\ s[e] = "}"
             THEN [found |-> TRUE, from |-> i, to |-> f, group |-> SubSeq(s, i + 1, f)]
             ELSE NoMatch
\* text.match(toolCallsBlockPattern): the leftmost match
toolCallsBlockMatch(s) ==
  LET hits == {i \in Indices(s, "TOOL_CALLS:") : toolCallsBlockAt(s, i).found}
  IN IF hits = {} THEN NoMatch ELSE toolCallsBlockAt(s, Min(hits))

\* /CREATE_PLAN:\s*({.*})/s tried at the marker at i: from the "{" after the
\* marker to the last "}" of the text
planAt(s, i) ==
  LET j == SkipSpaces(s, i + 1)
      closing == {e \in Indices(s, "}") : e > j}
  IN IF At(s, j) # "{" \/ closing = {} THEN NoMatch
     ELSE LET e == CHOOSE e \in closing : \A x \in closing : x <= e
          IN [found |-> TRUE, from |-> i, to |-> e, group |-> SubSeq(s, j, e)]
\* text.match(planPattern)
planMatch(s) ==
  LET hits == {i \in Indices(s, "CREATE_PLAN:") : planAt(s, i).found}
  IN IF hits = {} THEN NoMatch ELSE planAt(s, Min(hits))

\* the ids getAIResponse generates
CallId(time, random) == [prefix |-> "call", time |-> time, random |-> random]
PlanCallId(time) == [prefix |-> "plan_call", time |-> time, random |-> 0]
\* a ToolCall: arguments is the text JSON.stringify returned
ToolCall(id, name, arguments) == [id |-> id, name |-> name, arguments |-> arguments]
\* call.name of a parsed element, "" when it is not a string
NameOf(element) ==
  LET n == Property(element, "name") IN IF n.kind = "str" THEN n.v ELSE ""

\* "for (const call of parsedToolCalls) { toolCalls.push({ ... call.name
\* ... }) }": the number of calls pushed. Reading call.name throws on null,
\* which ends the loop in the catch block; on an object or a string it does
\* not
pushedCalls(items) ==
  LET nulls == {i \in DOMAIN items : items[i].kind = "null"}
  IN IF nulls = {} THEN Len(items) ELSE Min(nulls) - 1

\* the TOOL_CALLS step of getAIResponse on text s, with time[i] the value of
\* Date.now() and random[i] the value of Math.random() for element i: the
\* text and the calls after it
extractToolCalls_stripOnFailure(s, time, random) ==
  CHOOSE result \in
    {IF ~m.found THEN [text |-> s, toolCalls |-> << >>]
     ELSE CHOOSE stripped \in
            {[text |-> Trim(Cut(s, m.from, m.to)),
              toolCalls |-> IF ~parsed.ok THEN << >>
                            ELSE [i \in 1 .. pushedCalls(parsed.val.items) |->
                                    ToolCall(CallId(time[i], random[i]),
                                             NameOf(parsed.val.items[i]),
                                             JSONstringify(Property(parsed.val.items[i],
                                                                    "arguments")))]] :
               parsed \in {JSONparse(m.group)}} : TRUE :
       m \in {toolCallsBlockMatch(s)}} : TRUE
extractToolCalls(s, time, random) ==
  CHOOSE result \in
    {IF ~m.found THEN [text |-> s, toolCalls |-> << >>]
     ELSE CHOOSE matched \in
            {IF ~parsed.ok THEN [text |-> s, toolCalls |-> << >>]
             ELSE [text |-> IF pushedCalls(parsed.val.items) = Len(parsed.val.items)
                            THEN Trim(Cut(s, m.from, m.to)) ELSE s,
                   toolCalls |-> [i \in 1 .. pushedCalls(parsed.val.items) |->
                                    ToolCall(CallId(time[i], random[i]),
                                             NameOf(parsed.val.items[i]),
                                             JSONstringify(Property(parsed.val.items[i],
                                                                    "arguments")))]] :
               parsed \in {JSONparse(m.group)}} : TRUE :
       m \in {toolCallsBlockMatch(s)}} : TRUE

\* the CREATE_PLAN step of getAIResponse, on the text and the calls the
\* TOOL_CALLS step left
extractPlan(s, calls, time) ==
  CHOOSE result \in
    {IF ~m.found THEN [text |-> s, toolCalls |-> calls]
     ELSE CHOOSE matched \in
            {IF ~planData.ok THEN [text |-> s, toolCalls |-> calls]
             ELSE [text |-> Trim(Cut(s, m.from, m.to)),
                   toolCalls |-> Append(calls, ToolCall(PlanCallId(time), "create_plan",
                                                        JSONstringify(planData.val)))] :
               planData \in {JSONparse(m.group)}} : TRUE :
       m \in {planMatch(s)}} : TRUE

\* what getAIResponse returns for the model text s; the CREATE_PLAN step
\* reads the clock after the TOOL_CALLS step has
extract(s, time, random) ==
  CHOOSE result \in
    {[content |-> second.text, toolCalls |-> second.toolCalls] :
       second \in {extractPlan(first.text, first.toolCalls, time[Len(first.toolCalls) + 1]) :
                     first \in {extractToolCalls(s, time, random)}}} : TRUE

\* the elements of a TOOL_CALLS array: {name, arguments} objects, their
\* arguments an object with a string, with an array of strings or with an
\* array of objects, and an element that also carries an id of the model's
\* choosing
CallElements ==
  {Obj(<<Member("name", Str("read_file")), Member("arguments", a)>>) :
     a \in {Obj(<<Member("path", Str("a"))>>),
            Obj(<<Member("files", Arr(<<Str("a"), Str("b")>>))>>),
            Obj(<<Member("items", Arr(<<Obj(<<Member("path", Str("a"))>>)>>))>>)}}
  \cup {Obj(<<Member("name", Str("write_file")),
              Member("arguments", Obj(<<Member("path", Str("a"))>>)),
              Member("id", Str("model_id"))>>)}
\* TOOL_CALLS blocks: none, a marker with the text of an array (after a space
\* or not), a marker with an array that has a trailing comma, a marker with
\* no array, a marker with an array that holds null between two objects
ToolCallsBlocks ==
  {<< >>, <<"TOOL_CALLS:", "[", "{", "name:read_file", ",", "}", "]">>,
   <<"TOOL_CALLS:", "hi">>,
   <<"TOOL_CALLS:", "[", "{", "name:read_file", "}", ",", "null", ",",
     "{", "name:write_file", "}", "]">>}
  \cup {<<"TOOL_CALLS:">> \o JSONstringify(Arr(a)) : a \in SeqsUpTo(CallElements, MaxElements)}
  \cup {<<"TOOL_CALLS:", " ">> \o JSONstringify(Arr(<<e>>)) : e \in CallElements}
\* CREATE_PLAN blocks: none, a marker with an object, a marker with an object
\* that has a trailing comma
PlanBlocks ==
  {<< >>, <<"CREATE_PLAN:", "{", "title:demo", "}">>,
   <<"CREATE_PLAN:", " ", "{", "title:demo", ",", "}">>}
\* the model texts: narrative, then the blocks, then narrative or nothing
ModelTexts ==
  {<<"hi", " ">> \o tc \o pl \o post :
     tc \in ToolCallsBlocks, pl \in PlanBlocks, post \in {<< >>, <<" ", "hi">>}}


\* the values n successive reads of Date.now() return, from the value from on
Readings(n, from) ==
  {t \in [1 .. n -> from .. MaxClock] : \A i \in 1 .. n - 1 : t[i] <= t[i + 1]}
\* the number of elements of the TOOL_CALLS block that s yields calls for
Elements(s) == Len(extractToolCalls(s, [i \in DOMAIN s |-> 0], [i \in DOMAIN s |-> 0]).toolCalls)

\* getAIResponse() when the model service answers s: the calls are extracted
\* and given their ids, from the clock and the random source
getAIResponse(s) ==
  /\ \E n \in {Elements(s)} :
       \* Math.random() takes one of two values
       \E time \in Readings(n + 1, clock), random \in [1 .. n -> {1, 2}] :
         \E out \in {extract(s, time, random)} :
           /\ Len(emitted) + Len(out.toolCalls) <= MaxIds
           /\ clock' = time[n + 1]
           /\ text' = s
           /\ extracted' = out
           /\ emitted' = emitted \o [i \in DOMAIN out.toolCalls |-> out.toolCalls[i].id]
  /\ last' = TurnStep("getAIResponse", 0, "", TRUE, "", FALSE)
  /\ UNCHANGED <<configVars, fileVars, turnVars, confirmVars, savedFiles, ctxMode, agentModeManager, planVars>>

\* ------------------------------------------------------ ConfirmationSystem
\* The gate is constructed under the default configuration, autoApprove:
\* false; setAutoApprove(true) leads to the state the other configuration
\* constructs.
\* the record of a confirmation call: the tool name it was given ("" when it
\* takes none), the boolean it returned, the number of times it invoked the
\* prompt, and its boolean input: the answer the user gives when asked, or
\* the argument of setAutoApprove
Confirmation(op, name, ok, asked, value) ==
  [op |-> op, planId |-> 0, stepId |-> 0, path |-> 0, ok |-> ok, err |-> "",
   ran |-> FALSE, arg |-> NoArg, name |-> name, asked |-> asked, value |-> value]
\* the confirmation methods that take no tool call
ConfirmationMethods ==
  {"confirmDestructiveOperation", "confirmPlanExecution", "confirmModeSwitch",
   "confirmFileOverwrite", "confirmDirectoryCreation", "confirmExit"}
\* tool names calls are confirmed for: the five of destructiveTools and two
\* others
ConfirmedTools ==
  {"write_file", "modify_file", "delete_file", "execute_command",
   "execute_interactive_command", "read_file", "create_plan"}
\* argument values are strings, given by their length, and a number
\* the arguments of a tool call as Object.entries lists them; Unparsable is
\* an arguments text JSON.parse rejects
Unparsable == <<[key |-> "", value |-> [type |-> "invalid", length |-> 0]]>>
ArgumentObjects ==
  SeqsUpTo([key : {"content", "command", "path"},
            value : {[type |-> "string", length |-> PreviewLength], [type |-> "string", length |-> PreviewLength + 1],
                     [type |-> "number", length |-> 0]}], 1)
  \cup {<<[key |-> "content", value |-> [type |-> "string", length |-> PreviewLength + 1]],
          [key |-> "command", value |-> [type |-> "string", length |-> PreviewLength + 1]]>>, Unparsable}
NothingRendered == [parsed |-> FALSE, lines |-> << >>]

\* if (this.autoApprove) { ...; return true; }
skipsPrompt_exceptExit(method) == autoApprove /\ method # "confirmExit"
skipsPrompt(method) == autoApprove

toolRequiresApproval_all(toolName) == TRUE
\* destructiveTools.includes(toolName)
toolRequiresApproval(toolName) ==
  toolName \in {"write_file", "modify_file", "delete_file", "execute_command",
                "execute_interactive_command"}

\* one line of displayToolAction: the characters of the value it prints, and
\* whether "..." follows them
displayArgument(entry) ==
  IF entry.key = "content" /\ entry.value.type = "string"
     /\ entry.value.length > PreviewLength
  THEN [key |-> entry.key, value |-> entry.value, shown |-> PreviewLength, ellipsis |-> TRUE]
  ELSE [key |-> entry.key, value |-> entry.value, shown |-> entry.value.length,
        ellipsis |-> FALSE]
\* displayToolAction(): one line per entry of the parsed arguments, the raw
\* text when they do not parse
displayToolAction(args) ==
  IF args = Unparsable THEN NothingRendered
  ELSE [parsed |-> TRUE, lines |-> [i \in DOMAIN args |-> displayArgument(args[i])]]

\* setAutoApprove(enabled)
setAutoApprove(enabled) ==
  /\ autoApprove' = enabled
  /\ last' = Confirmation("setAutoApprove", "", TRUE, 0, enabled)
  /\ UNCHANGED <<configVars, fileVars, turnVars, extractVars, savedFiles, ctxMode, agentModeManager, planVars,
                 prompts, rendered>>

\* confirmToolExecution(toolCall, context), the user answering answer when
\* asked
confirmToolExecution(toolName, args, answer) ==
  /\ IF skipsPrompt("confirmToolExecution") \/ ~toolRequiresApproval(toolName)
     THEN /\ last' = Confirmation("confirmToolExecution", toolName, TRUE, 0, answer)
          /\ UNCHANGED <<prompts, rendered>>
     ELSE /\ prompts < MaxPrompts
          /\ rendered' = displayToolAction(args)
          /\ prompts' = prompts + 1
          /\ last' = Confirmation("confirmToolExecution", toolName, answer, 1, answer)
  /\ UNCHANGED <<configVars, fileVars, turnVars, extractVars, savedFiles, ctxMode, agentModeManager, planVars,
                 autoApprove>>

\* confirmDestructiveOperation, confirmPlanExecution, confirmModeSwitch,
\* confirmFileOverwrite, confirmDirectoryCreation and confirmExit, the user
\* answering answer when asked
confirm(method, answer) ==
  /\ IF skipsPrompt(method)
     THEN /\ last' = Confirmation(method, "", TRUE, 0, answer)
          /\ UNCHANGED prompts
     ELSE /\ prompts < MaxPrompts
          /\ prompts' = prompts + 1
          /\ last' = Confirmation(method, "", answer, 1, answer)
  /\ UNCHANGED <<configVars, fileVars, turnVars, extractVars, savedFiles, ctxMode, agentModeManager, planVars,
                 autoApprove, rendered>>

\* ------------------------------------- ClineAgent: saved conversations
\* the paths conversations are saved to and loaded from
SavePaths == {1}
\* Date.prototype.toJSON, which JSON.stringify calls: the ISO text of the
\* instant; a string stays the string it is
toISOString(timestamp) ==
  IF timestamp.kind = "Date" THEN [kind |-> "string", ms |-> timestamp.ms] ELSE timestamp
\* fs.writeJson: the JSON text of the history. Roles, contents, tool calls
\* and tool results are strings, booleans and arrays and objects of them,
\* which JSON writes as they are
writeJson(history) ==
  [exists |-> TRUE,
   json |-> [i \in DOMAIN history |->
               [history[i] EXCEPT !.timestamp = toISOString(@)]]]
\* fs.readJson: JSON.parse without a reviver returns the strings, booleans,
\* arrays and objects of the text
readJson(file) == file.json

\* saveConversation(filePath); writes is whether the file system takes the
\* file
saveConversation(filePath, writes) ==
  /\ pc = "idle"
  /\ IF writes
     THEN /\ savedFiles' = [savedFiles EXCEPT ![filePath] = writeJson(conversationHistory)]
          /\ last' = Call("saveConversation", 0, 0, filePath, TRUE, "", FALSE, NoArg)
     ELSE /\ UNCHANGED savedFiles
          /\ last' = Call("saveConversation", 0, 0, filePath, FALSE,
                          "Failed to save conversation", FALSE, NoArg)
  /\ UNCHANGED <<configVars, fileVars, turnVars, extractVars, confirmVars, ctxMode, agentModeManager,
                 planVars>>

\* loadConversation(filePath)
loadConversation(filePath) ==
  /\ pc = "idle"
  /\ IF savedFiles[filePath].exists
     THEN /\ conversationHistory' = readJson(savedFiles[filePath])
          /\ last' = Call("loadConversation", 0, 0, filePath, TRUE, "", FALSE, NoArg)
     ELSE /\ UNCHANGED conversationHistory
          /\ last' = Call("loadConversation", 0, 0, filePath, FALSE,
                          "Failed to load conversation", FALSE, NoArg)
  /\ UNCHANGED <<configVars, fileVars, extractVars, confirmVars, savedFiles, ctxMode, agentModeManager,
                 planVars, pc, response, toolResults, running, returned>>

\* ---------------------------------------------------------- ConfigManager
\* A CLIConfig is modelled by the fields the commands of the CLI write and
\* the agent reads: autoApprove, geminiApiKey and model.
\* DEFAULT_CONFIG, evaluated when the module is loaded
DEFAULT_CONFIG(env) ==
  [autoApprove |-> FALSE, geminiApiKey |-> env.GEMINI_API_KEY, model |-> "gemini-1.5-flash"]
\* the config file before anything was saved
NoConfigFile == [exists |-> FALSE, data |-> << >>]
\* the environments of a process: each of the three variables unset ("") or
\* set, CLINE_AUTO_APPROVE to 'true'
Envs == [GEMINI_API_KEY : {"", "E"}, CLINE_MODEL : {"", "M"}, CLINE_AUTO_APPROVE : {"", "true"}]
\* the config files an earlier process left: none, or the file saveConfig
\* wrote, which holds every field
ConfigFiles ==
  {NoConfigFile} \cup
  {[exists |-> TRUE, data |-> d] :
     d \in [autoApprove : BOOLEAN, geminiApiKey : {"E", "K"}, model : {"gemini-1.5-flash", "M"}]}

\* "export const config = new ConfigManager()" in a process with one of the
\* environments envs and one of the files files: the constructor copies
\* DEFAULT_CONFIG and calls loadConfig() without awaiting it; loadConfig runs
\* up to "await fs.ensureDir(CONFIG_DIR)". No command has been issued.
newConfigManager(envs, files) ==
  /\ processEnv \in envs
  /\ configFile \in files
  /\ config = DEFAULT_CONFIG(processEnv)
  /\ loading = [at |-> "ensureDir", configData |-> << >>]
  /\ command = [at |-> "none", before |-> NoConfigFile, json |-> << >>, enabled |-> FALSE]

\* the lines of loadConfig after the if statement on the file
envOverrides(cfg, env) ==
  [cfg EXCEPT
     !.geminiApiKey = IF env.GEMINI_API_KEY # "" THEN env.GEMINI_API_KEY ELSE @,
     !.model = IF env.CLINE_MODEL # "" THEN env.CLINE_MODEL ELSE @,
     !.autoApprove = IF env.CLINE_AUTO_APPROVE = "true" THEN TRUE ELSE @]

\* loadConfig(), one step per await: ensureDir resolves; pathExists resolves
\* with what it found; readJson reads the file; readJson resolves and the
\* rest of the function runs: this.config = { ...DEFAULT_CONFIG,
\* ...configData }, which does not read the value this.config had, then the
\* environment
loadConfig ==
  /\ \/ /\ loading.at = "ensureDir"
        /\ loading' = [loading EXCEPT !.at = "pathExists"]
        /\ UNCHANGED config
     \/ /\ loading.at = "pathExists"
        /\ IF configFile.exists
           THEN /\ loading' = [loading EXCEPT !.at = "readJson"]
                /\ UNCHANGED config
           ELSE /\ loading' = [loading EXCEPT !.at = "done"]
                /\ config' = envOverrides(config, processEnv)
     \/ /\ loading.at = "readJson"
        /\ loading' = [at |-> "parsed", configData |-> configFile.data]
        /\ UNCHANGED config
     \/ /\ loading.at = "parsed"
        /\ loading' = [loading EXCEPT !.at = "done"]
        /\ config' = envOverrides(loading.configData, processEnv)
  /\ last' = Call("loadConfig", 0, 0, 0, TRUE, "", FALSE, NoArg)
  /\ UNCHANGED <<fileVars, turnVars, extractVars, confirmVars, savedFiles, ctxMode,
                 agentModeManager, planVars, processEnv, configFile, command>>

\* the action of "config toggle-auto-approve" up to the first await:
\* toggleAutoApprove() negates this.config.autoApprove and calls saveConfig(),
\* which runs up to "await fs.ensureDir(CONFIG_DIR)". The command belongs to
\* a CLICommands object, whose constructor builds the ClineAgent, which
\* throws when config.get('geminiApiKey') is empty. The record of the command
\* keeps the file as it was when the command started.
toggleAutoApprove ==
  /\ command.at = "none"
  /\ config.geminiApiKey # ""
  /\ config' = [config EXCEPT !.autoApprove = ~@]
  /\ command' = [command EXCEPT !.at = "ensureDir", !.before = configFile]
  /\ last' = Call("toggleAutoApprove", 0, 0, 0, TRUE, "", FALSE, NoArg)
  /\ UNCHANGED <<fileVars, turnVars, extractVars, confirmVars, savedFiles, ctxMode,
                 agentModeManager, planVars, processEnv, configFile, loading>>

\* saveConfig() after its first await: ensureDir resolves and fs.writeJson is
\* called, which takes the JSON text of this.config at once; then the text
\* is written to the file
saveConfig ==
  /\ \/ /\ command.at = "ensureDir"
        /\ command' = [command EXCEPT !.at = "writeJson", !.json = <<config>>]
        /\ UNCHANGED configFile
     \/ /\ command.at = "writeJson"
        /\ configFile' = [exists |-> TRUE, data |-> command.json[1]]
        /\ command' = [command EXCEPT !.at = "saved"]
  /\ last' = Call("saveConfig", 0, 0, 0, TRUE, "", FALSE, NoArg)
  /\ UNCHANGED <<fileVars, turnVars, extractVars, confirmVars, savedFiles, ctxMode,
                 agentModeManager, planVars, processEnv, config, loading>>

\* the command after "await config.toggleAutoApprove()": toggleAutoApprove
\* returns this.config.autoApprove and the command hands the value to
\* confirmation.setAutoApprove
toggleCommandEnds ==
  /\ command.at = "saved"
  /\ command' = [command EXCEPT !.at = "done", !.enabled = config.autoApprove]
  /\ autoApprove' = config.autoApprove
  /\ last' = Call("toggle-auto-approve", 0, 0, 0, TRUE, "", FALSE, NoArg)
  /\ UNCHANGED <<fileVars, turnVars, extractVars, prompts, rendered, savedFiles, ctxMode,
                 agentModeManager, planVars, processEnv, configFile, config, loading>>

\* ------------------------------------------------------- specifications
\* the state after "new ClineAgent(modeManager?)" and "new ModeManager(agent)"
Init ==
  /\ recentFiles = << >>
  /\ disk = {}
  /\ touches = 0
  /\ ctxMode = "plan"
  /\ agentModeManager = TRUE
  /\ currentMode = "plan"
  /\ executionPlans = << >>
  /\ activePlanId = 0
  /\ nextPlanId = 1
  /\ conversationHistory = << >>
  /\ pc = "idle"
  /\ response = NoResponse
  /\ toolResults = << >>
  /\ running = 0
  /\ returned = Pending
  /\ text = << >>
  /\ extracted = [content |-> << >>, toolCalls |-> << >>]
  /\ clock = 0
  /\ emitted = << >>
  /\ autoApprove = FALSE
  /\ prompts = 0
  /\ rendered = NothingRendered
  /\ savedFiles = [p \in SavePaths |-> [exists |-> FALSE, json |-> << >>]]
  /\ newConfigManager({[GEMINI_API_KEY |-> "E", CLINE_MODEL |-> "", CLINE_AUTO_APPROVE |-> ""]},
                      {NoConfigFile})
  /\ last = [op |-> "new", planId |-> 0, stepId |-> 0, path |-> 0,
             ok |-> TRUE, err |-> "", ran |-> FALSE, arg |-> NoArg]

\* the plan lifecycle manager and the mode gate
Next ==
  \/ \E m \in Modes : switchMode(m)
  \/ \E pd \in InvalidPlanDatas : agentCreatePlan(pd)
  \/ nextPlanId <= MaxPlans /\ \E pd \in ValidPlanDatas : agentCreatePlan(pd)
  \/ \E p \in PlanIdArgs : approvePlan(p)
  \/ \E p \in PlanIdArgs : rejectPlan(p)
  \/ \E p \in PlanIdArgs, s \in StepIds : executePlanStep(p, s)
  \/ \E p \in PlanIdArgs : completePlan(p)
  \/ cancelActivePlan

Spec == Init /\ [][Next]_vars

\* the file tools acting on the session
NextFiles ==
  \/ \E f \in Paths : readFile(f)
  \/ \E f \in Paths : writeFile(f)

SpecFiles == Init /\ [][NextFiles]_vars

\* the mode gate asked about operations while plans are created and approved
NextGate ==
  \/ \E m \in Modes : switchMode(m)
  \/ nextPlanId <= MaxPlans /\ \E pd \in ValidPlanDatas : agentCreatePlan(pd)
  \/ \E p \in PlanIdArgs : approvePlan(p)
  \/ \E o \in Operations : validateModeForOperation(o)

SpecGate == Init /\ [][NextGate]_vars

\* the turn loop: turns are started one after the other, the mode is switched
\* between turns
NextTurn ==
  \/ pc = "idle" /\ \E m \in Modes : switchMode(m)
  \/ processMessage(Text("user", Len(conversationHistory)))
  \/ pc = "first" /\ \E r \in Responses(conversationHistory, Batches) : firstResponse(r)
  \/ dispatchToolCall
  \/ toolReturns
  \/ pc = "final" /\ \E r \in Responses(conversationHistory, FinalBatches) : finalResponse(r)

SpecTurn == Init /\ [][NextTurn]_vars

\* the extraction applied to one model text
NextExtract == text = << >> /\ \E s \in ModelTexts : getAIResponse(s)

SpecExtract == Init /\ [][NextExtract]_vars

\* the ids generated over the getAIResponse calls of a session, for texts
\* with a TOOL_CALLS block of two elements, a CREATE_PLAN block, both or
\* neither
NextIds ==
  \E tc \in {<< >>, <<"TOOL_CALLS:">> \o JSONstringify(Arr(
                      <<Obj(<<Member("name", Str("read_file"))>>),
                        Obj(<<Member("name", Str("read_file"))>>)>>))},
     pl \in {<< >>, <<"CREATE_PLAN:", "{", "title:demo", "}">>} :
    getAIResponse(<<"hi", " ">> \o tc \o pl)

SpecIds == Init /\ [][NextIds]_vars

\* the confirmation gate and its callers' calls
NextConfirm ==
  \/ \E enabled \in BOOLEAN : setAutoApprove(enabled)
  \/ \E toolName \in ConfirmedTools, args \in ArgumentObjects, answer \in BOOLEAN :
       confirmToolExecution(toolName, args, answer)
  \/ \E method \in ConfirmationMethods, answer \in BOOLEAN : confirm(method, answer)

SpecConfirm == Init /\ [][NextConfirm]_vars

\* turns of the conversation, their responses with no call or one, with
\* saves and loads between them
NextSave ==
  \/ processMessage(Text("user", Len(conversationHistory)))
  \/ pc = "first" /\
       \E r \in Responses(conversationHistory,
                          {<< >>, <<[name |-> "read_file", arguments |-> "object"]>>}) :
         firstResponse(r)
  \/ dispatchToolCall
  \/ toolReturns
  \/ pc = "final" /\ \E r \in Responses(conversationHistory, {<< >>}) : finalResponse(r)
  \/ \E filePath \in SavePaths, writes \in BOOLEAN : saveConversation(filePath, writes)
  \/ \E filePath \in SavePaths : loadConversation(filePath)

SpecSave == Init /\ [][NextSave]_vars

\* the stores getPlanProgress is asked about: the empty store, and the store
\* with one plan of up to max steps that was created, approved and executed
\* up to one of its steps
ProgressStores(max) ==
  {<< >>} \cup
  {LET created == createPlan(<< >>, 1, "demo", "demo",
                             [i \in 1 .. n |->
                                [id |-> i, type |-> "command", completed |-> FALSE]])
   IN [created EXCEPT ![1].approved = TRUE,
                      ![1].steps = [i \in 1 .. n |->
                                      [@[i] EXCEPT !.completed = i <= c]]] :
   n \in 0 .. max, c \in 0 .. max}

\* a session whose plan store is one of ProgressStores
InitProgress ==
  /\ recentFiles = << >>
  /\ disk = {}
  /\ touches = 0
  /\ ctxMode = "plan"
  /\ agentModeManager = TRUE
  /\ executionPlans \in ProgressStores(MaxTotal)
  /\ currentMode = IF executionPlans = << >> THEN "plan" ELSE "act"
  /\ activePlanId = IF executionPlans = << >> THEN 0 ELSE 1
  /\ nextPlanId = IF executionPlans = << >> THEN 1 ELSE 2
  /\ conversationHistory = << >>
  /\ pc = "idle"
  /\ response = NoResponse
  /\ toolResults = << >>
  /\ running = 0
  /\ returned = Pending
  /\ text = << >>
  /\ extracted = [content |-> << >>, toolCalls |-> << >>]
  /\ clock = 0
  /\ emitted = << >>
  /\ autoApprove = FALSE
  /\ prompts = 0
  /\ rendered = NothingRendered
  /\ savedFiles = [p \in SavePaths |-> [exists |-> FALSE, json |-> << >>]]
  /\ newConfigManager({[GEMINI_API_KEY |-> "E", CLINE_MODEL |-> "", CLINE_AUTO_APPROVE |-> ""]},
                      {NoConfigFile})
  /\ last = [op |-> "new", planId |-> 0, stepId |-> 0, path |-> 0,
             ok |-> TRUE, err |-> "", ran |-> FALSE, arg |-> NoArg]

NextProgress == \E p \in PlanIdArgs : getPlanProgress(p)

SpecProgress == InitProgress /\ [][NextProgress]_vars

\* the state after the constructor of CLICommands: "new ClineAgent()", with no
\* argument, then "new ModeManager(this.agent)"; the agent's modeManager
\* field is undefined
InitCli ==
  /\ recentFiles = << >>
  /\ disk = {}
  /\ touches = 0
  /\ ctxMode = "plan"
  /\ agentModeManager = FALSE
  /\ currentMode = "plan"
  /\ executionPlans = << >>
  /\ activePlanId = 0
  /\ nextPlanId = 1
  /\ conversationHistory = << >>
  /\ pc = "idle"
  /\ response = NoResponse
  /\ toolResults = << >>
  /\ running = 0
  /\ returned = Pending
  /\ text = << >>
  /\ extracted = [content |-> << >>, toolCalls |-> << >>]
  /\ clock = 0
  /\ emitted = << >>
  /\ autoApprove = FALSE
  /\ prompts = 0
  /\ rendered = NothingRendered
  /\ savedFiles = [p \in SavePaths |-> [exists |-> FALSE, json |-> << >>]]
  /\ newConfigManager({[GEMINI_API_KEY |-> "E", CLINE_MODEL |-> "", CLINE_AUTO_APPROVE |-> ""]},
                      {NoConfigFile})
  /\ last = [op |-> "new", planId |-> 0, stepId |-> 0, path |-> 0,
             ok |-> TRUE, err |-> "", ran |-> FALSE, arg |-> NoArg]

\* the call lists of the responses of the CLI's turns: no call, a read_file
\* call, or a create_plan call, which getAIResponse built from a TOOL_CALLS
\* element or from a CREATE_PLAN block (both give name "create_plan" and the
\* text of the payload as arguments)
CliBatches ==
  {<< >>, <<[name |-> "read_file", arguments |-> "object"]>>} \cup
  {<<[name |-> "create_plan", arguments |-> "object", planData |-> pd]>> : pd \in PlanDatas}

\* the turns of the CLI (processPrompt, startInteractiveMode) and its mode
\* commands; the CLI calls no other method of the ModeManager
NextCli ==
  \/ pc = "idle" /\ \E m \in Modes : switchMode(m)
  \/ processMessage(Text("user", Len(conversationHistory)))
  \/ pc = "first" /\ \E r \in Responses(conversationHistory, CliBatches) : firstResponse(r)
  \/ dispatchToolCall
  \/ toolReturns
  \/ createPlanReturns
  \/ pc = "final" /\ \E r \in Responses(conversationHistory, {<< >>}) : finalResponse(r)

SpecCli == InitCli /\ [][NextCli]_vars

\* a process that runs "config toggle-auto-approve", in any environment and
\* with any config file
InitConfig ==
  /\ recentFiles = << >>
  /\ disk = {}
  /\ touches = 0
  /\ ctxMode = "plan"
  /\ agentModeManager = FALSE
  /\ currentMode = "plan"
  /\ executionPlans = << >>
  /\ activePlanId = 0
  /\ nextPlanId = 1
  /\ conversationHistory = << >>
  /\ pc = "idle"
  /\ response = NoResponse
  /\ toolResults = << >>
  /\ running = 0
  /\ returned = Pending
  /\ text = << >>
  /\ extracted = [content |-> << >>, toolCalls |-> << >>]
  /\ clock = 0
  /\ emitted = << >>
  /\ autoApprove = FALSE
  /\ prompts = 0
  /\ rendered = NothingRendered
  /\ savedFiles = [p \in SavePaths |-> [exists |-> FALSE, json |-> << >>]]
  /\ newConfigManager(Envs, ConfigFiles)
  /\ last = [op |-> "new", planId |-> 0, stepId |-> 0, path |-> 0,
             ok |-> TRUE, err |-> "", ran |-> FALSE, arg |-> NoArg]

\* the command and the pending loadConfig, their steps in any order
NextConfig ==
  \/ loadConfig
  \/ toggleAutoApprove
  \/ saveConfig
  \/ toggleCommandEnds

SpecConfig == InitConfig /\ [][NextConfig]_vars

\* ------------------------------------------------------------------ claims
NoDuplicates(seq) == \A i, j \in DOMAIN seq : i # j => seq[i] # seq[j]
IsFileTouch == last.op \in {"readFile", "writeFile"} /\ last.ok

\* C1: after any sequence of successful or failed readFile and writeFile
\* calls, recentFiles has at most 10 entries and holds no path twice.
C1_RecentBounded ==
  /\ Len(recentFiles) <= RecentCapacity
  /\ NoDuplicates(recentFiles)

\* the list is full, an older path has been dropped from it, and the last call
\* was a failed one
C1_Witness ==
  /\ Len(recentFiles) = RecentCapacity
  /\ \E f \in disk : ~Includes(recentFiles, f)
  /\ last.op \in {"readFile", "writeFile"} /\ ~last.ok

\* C2: after a successful readFile or writeFile the path just touched is at
\* index 0 of recentFiles, also when it was in the list before the touch.
C2_MostRecentFirst ==
  IsFileTouch => (recentFiles # << >> /\ recentFiles[1] = last.path)

\* the step of plan p that carries id s, 0 when there is none
StepIndex(plans, p, s) ==
  IF \E i \in DOMAIN plans[p].steps : plans[p].steps[i].id = s
  THEN CHOOSE i \in DOMAIN plans[p].steps :
         /\ plans[p].steps[i].id = s
         /\ \A j \in DOMAIN plans[p].steps : plans[p].steps[j].id = s => i <= j
  ELSE 0
IsExec == last'.op = "executePlanStep"
\* this step is an executePlanStep call on a step of an approved plan
ExecOnStep ==
  /\ IsExec
  /\ last'.planId \in DOMAIN executionPlans
  /\ executionPlans[last'.planId].approved
  /\ StepIndex(executionPlans, last'.planId, last'.stepId) # 0
\* the step that call is on, before the call
ExecStep ==
  executionPlans[last'.planId].steps[StepIndex(executionPlans, last'.planId, last'.stepId)]

C3_Step ==
  executionPlans' # executionPlans =>
  \A p \in DOMAIN executionPlans' : \A i \in DOMAIN executionPlans'[p].steps :
    LET now == executionPlans'[p].steps[i].completed
        known == p \in DOMAIN executionPlans
        before == known /\ executionPlans[p].steps[i].completed
    IN /\ now => executionPlans'[p].approved
       /\ (now /\ ~before) =>
            /\ known /\ executionPlans[p].approved
            /\ IsExec /\ last'.ran /\ last'.ok
            /\ last'.planId = p /\ last'.stepId = executionPlans[p].steps[i].id
            /\ currentMode = "act" /\ currentMode' = "act"
       /\ before => now
\* C3: a completed step belongs to an approved plan and was set completed by
\* an executePlanStep call made in act mode; a completed flag that is true
\* is never set back to false.
C3_CompletedOnlyByActExec ==
  /\ \A p \in DOMAIN executionPlans : \A i \in DOMAIN executionPlans[p].steps :
       executionPlans[p].steps[i].completed => executionPlans[p].approved
  /\ [][C3_Step]_vars

\* a step has been completed by the last call and the mode is act
C3_Witness ==
  /\ last.op = "executePlanStep" /\ last.ran /\ last.ok
  /\ last.planId \in DOMAIN executionPlans
  /\ \E i \in DOMAIN executionPlans[last.planId].steps :
       /\ executionPlans[last.planId].steps[i].id = last.stepId
       /\ executionPlans[last.planId].steps[i].completed
  /\ currentMode = "act"

C4_Step ==
  (ExecOnStep /\ ExecStep.completed) =>
    /\ last'.ok /\ last'.err = "" /\ ~last'.ran
    /\ UNCHANGED planVars
\* C4: executePlanStep on an already-completed step of an approved plan, in
\* either mode, returns success, does not invoke executeStepLogic and leaves
\* the plan state unchanged.
C4_IdempotentOnCompleted == [][C4_Step]_vars

\* the last call was made in plan mode on a step that is completed, and it did
\* not run the executor
C4_Witness ==
  /\ last.op = "executePlanStep" /\ last.ok /\ ~last.ran
  /\ currentMode = "plan"
  /\ last.planId \in DOMAIN executionPlans
  /\ executionPlans[last.planId].approved
  /\ StepIndex(executionPlans, last.planId, last.stepId) # 0
  /\ executionPlans[last.planId].steps[
       StepIndex(executionPlans, last.planId, last.stepId)].completed

C5_Step ==
  (/\ IsExec
   /\ last'.planId \in DOMAIN executionPlans
   /\ ~executionPlans[last'.planId].approved) =>
    /\ ~last'.ok /\ last'.err = "Plan must be approved before execution"
    /\ ~last'.ran
    /\ UNCHANGED planVars
\* C5: executePlanStep on a plan that exists and is not approved fails with
\* "Plan must be approved before execution" in both modes and for any step id,
\* and changes no step, plan or active-plan state.
C5_UnapprovedFails == [][C5_Step]_vars

\* the call failed so in act mode, for a step id the plan does not have
C5_Witness ==
  /\ last.op = "executePlanStep"
  /\ last.err = "Plan must be approved before execution"
  /\ currentMode = "act"
  /\ last.planId \in DOMAIN executionPlans
  /\ ~executionPlans[last.planId].approved
  /\ StepIndex(executionPlans, last.planId, last.stepId) = 0

EveryStepCompleted(plan) ==
  Cardinality({i \in DOMAIN plan.steps : plan.steps[i].completed}) = Len(plan.steps)
C6_Step ==
  (last'.op = "completePlan" /\ last'.planId \in DOMAIN executionPlans) =>
    /\ last'.ok <=> EveryStepCompleted(executionPlans[last'.planId])
    /\ ~last'.ok => (last'.err = "Not all steps are completed" /\ UNCHANGED planVars)
    /\ last'.ok =>
         /\ activePlanId' = IF activePlanId = last'.planId THEN 0 ELSE activePlanId
         /\ UNCHANGED <<currentMode, executionPlans, nextPlanId>>
\* C6: completePlan on an existing plan succeeds exactly when every step is
\* completed; a failure changes nothing; a success clears the active-plan
\* reference if it pointed to this plan and leaves it alone otherwise.
C6_CompleteIffAllDone == [][C6_Step]_vars

\* completePlan has failed on the active plan, one step done and one not
C6_Witness ==
  /\ last.op = "completePlan" /\ ~last.ok
  /\ last.err = "Not all steps are completed"
  /\ activePlanId = last.planId
  /\ last.planId \in DOMAIN executionPlans
  /\ \E i, j \in DOMAIN executionPlans[last.planId].steps :
       /\ executionPlans[last.planId].steps[i].completed
       /\ ~executionPlans[last.planId].steps[j].completed

C7_Step ==
  (ExecOnStep /\ ~ExecStep.completed /\ currentMode = "plan") =>
    /\ last'.ok /\ last'.err = "" /\ ~last'.ran
    /\ UNCHANGED planVars
\* C7: in plan mode executePlanStep on a not-yet-completed step of an approved
\* plan returns success without invoking executeStepLogic and without changing
\* the completed flag or any other plan state.
C7_PlanModeNoMutation == [][C7_Step]_vars

\* the last call succeeded in plan mode on a step that is still not completed
C7_Witness ==
  /\ last.op = "executePlanStep" /\ last.ok /\ ~last.ran
  /\ currentMode = "plan"
  /\ last.planId \in DOMAIN executionPlans
  /\ executionPlans[last.planId].approved
  /\ StepIndex(executionPlans, last.planId, last.stepId) # 0
  /\ ~executionPlans[last.planId].steps[
        StepIndex(executionPlans, last.planId, last.stepId)].completed

C8_Step ==
  (/\ ExecOnStep
   /\ ~ExecStep.completed
   /\ currentMode = "act"
   /\ ExecStep.type \notin StepTypes) =>
    /\ last'.ran
    /\ ~last'.ok /\ last'.err = "Step execution failed"
    /\ \A i \in DOMAIN executionPlans'[last'.planId].steps :
         executionPlans'[last'.planId].steps[i].id = last'.stepId =>
           ~executionPlans'[last'.planId].steps[i].completed
    /\ UNCHANGED planVars
\* C8: in act mode, executePlanStep on a step whose executor fails (a step
\* type outside analysis, file_operation, command, confirmation) runs the
\* executor, fails with "Step execution failed" and leaves the step
\* incomplete; this holds of every such call, so also of a later one on the
\* same step.
C8_ExecutorFailure == [][C8_Step]_vars

\* the executor has run and failed, and the step is still incomplete
C8_Witness ==
  /\ last.op = "executePlanStep" /\ last.ran /\ ~last.ok
  /\ last.err = "Step execution failed"
  /\ currentMode = "act"
  /\ StepIndex(executionPlans, last.planId, last.stepId) # 0
  /\ ~executionPlans[last.planId].steps[
        StepIndex(executionPlans, last.planId, last.stepId)].completed

C9_Step ==
  (last'.op = "create_plan" /\ agentModeManager) =>
    IF last'.arg.missing
    THEN /\ ~last'.ok /\ last'.err = "Invalid plan data"
         /\ UNCHANGED planVars
    ELSE /\ last'.ok
         /\ last'.planId \notin DOMAIN executionPlans
         /\ DOMAIN executionPlans' = DOMAIN executionPlans \cup {last'.planId}
         /\ \A p \in DOMAIN executionPlans : executionPlans'[p] = executionPlans[p]
         /\ ~executionPlans'[last'.planId].approved
         /\ \A i \in DOMAIN executionPlans'[last'.planId].steps :
              ~executionPlans'[last'.planId].steps[i].completed
         /\ UNCHANGED <<activePlanId, currentMode>>
C10_Step ==
  last'.op = "approvePlan" =>
    IF last'.planId \notin DOMAIN executionPlans
    THEN /\ ~last'.ok /\ last'.err = "Plan not found"
         /\ UNCHANGED planVars
    ELSE /\ last'.ok
         /\ DOMAIN executionPlans' = DOMAIN executionPlans
         /\ executionPlans'[last'.planId].approved
         /\ executionPlans'[last'.planId].steps = executionPlans[last'.planId].steps
         /\ activePlanId' = last'.planId
         /\ \A q \in DOMAIN executionPlans \ {last'.planId} :
              executionPlans'[q] = executionPlans[q]
         /\ UNCHANGED <<currentMode, nextPlanId>>
\* C10: approvePlan fails with "Plan not found" and changes nothing for an id
\* that is not in the store; otherwise it sets the plan approved and makes it
\* the active plan whatever the reference was, and every other plan, a
\* previously active one included, stays in the store unchanged.
C10_ApprovePlan == [][C10_Step]_vars

\* a plan was approved and is active while another approved plan, with a
\* completed step, is still in the store
C10_Witness ==
  /\ last.op = "approvePlan" /\ last.ok
  /\ activePlanId = last.planId
  /\ \E q \in DOMAIN executionPlans :
       /\ q # last.planId
       /\ executionPlans[q].approved
       /\ \E i \in DOMAIN executionPlans[q].steps : executionPlans[q].steps[i].completed

C11_Step ==
  last'.op = "rejectPlan" =>
    IF last'.planId \notin DOMAIN executionPlans
    THEN /\ ~last'.ok /\ last'.err = "Plan not found"
         /\ UNCHANGED planVars
    ELSE /\ last'.ok
         /\ DOMAIN executionPlans' = DOMAIN executionPlans \ {last'.planId}
         /\ \A q \in DOMAIN executionPlans' : executionPlans'[q] = executionPlans[q]
         /\ activePlanId' = IF activePlanId = last'.planId THEN 0 ELSE activePlanId
         /\ UNCHANGED <<currentMode, nextPlanId>>
\* C11: rejectPlan fails with "Plan not found" and changes nothing for an id
\* that is not in the store; otherwise it removes exactly that plan, sets the
\* active-plan reference to null if it pointed to the plan and leaves the
\* reference and every other plan unchanged if it did not; this holds of the
\* rejection of an unapproved plan and of an approved one.
C11_RejectPlan == [][C11_Step]_vars

\* an unapproved plan has been rejected while another plan, approved, stays
\* active and in the store
C11_Witness ==
  /\ last.op = "rejectPlan" /\ last.ok
  /\ last.planId \notin DOMAIN executionPlans
  /\ activePlanId # 0 /\ activePlanId # last.planId
  /\ activePlanId \in DOMAIN executionPlans
  /\ executionPlans[activePlanId].approved

C12_Step ==
  last'.op = "cancelActivePlan" =>
    IF activePlanId = 0
    THEN /\ ~last'.ok /\ last'.err = ""
         /\ UNCHANGED planVars
    ELSE /\ last'.ok
         /\ activePlanId' = 0
         /\ UNCHANGED <<currentMode, executionPlans, nextPlanId>>
\* C12: cancelActivePlan returns false, without an error, and changes nothing
\* when no plan is active; otherwise it returns true, sets the active-plan
\* reference to null and leaves the store, and with it every plan's approved
\* flag and step flags, unchanged.
C12_CancelActivePlan == [][C12_Step]_vars

\* the active plan has been cancelled: it is still in the store, approved and
\* with a completed step, and no plan is active
C12_Witness ==
  /\ last.op = "cancelActivePlan" /\ last.ok
  /\ activePlanId = 0
  /\ \E q \in DOMAIN executionPlans :
       /\ executionPlans[q].approved
       /\ \E i \in DOMAIN executionPlans[q].steps : executionPlans[q].steps[i].completed

\* plan p of the store has exactly two steps, with ids 1 and 2, both of a type
\* executeStepLogic knows
TwoSteps(plans, p) ==
  /\ p \in DOMAIN plans
  /\ Len(plans[p].steps) = 2
  /\ \A i \in 1 .. 2 : plans[p].steps[i].id = i /\ plans[p].steps[i].type \in StepTypes
\* the completed flags of the two steps of plan p
Flags(plans, p) == <<plans[p].steps[1].completed, plans[p].steps[2].completed>>
\* plan p is such a plan, approved and active, and the mode is act
TraceRunning(p) ==
  /\ TwoSteps(executionPlans, p)
  /\ executionPlans[p].approved
  /\ activePlanId = p
  /\ currentMode = "act"
C13_Step ==
  LET p == last'.planId IN
  \* create a plan with 2 steps
  /\ (last'.op = "create_plan" /\ last'.ok /\ TwoSteps(executionPlans', p)) =>
       /\ ~executionPlans'[p].approved
       /\ Flags(executionPlans', p) = <<FALSE, FALSE>>
  \* approve it
  /\ (/\ last'.op = "approvePlan" /\ TwoSteps(executionPlans, p)
      /\ ~executionPlans[p].approved) =>
       /\ last'.ok
       /\ executionPlans'[p].approved
       /\ activePlanId' = p
       /\ Flags(executionPlans', p) = Flags(executionPlans, p)
  \* switch to act
  /\ (last'.op = "switchMode" /\ currentMode' = "act") =>
       UNCHANGED <<executionPlans, activePlanId>>
  \* execute step 1: succeeds, completed = true
  /\ (/\ last'.op = "executePlanStep" /\ last'.stepId = 1 /\ TraceRunning(p)
      /\ Flags(executionPlans, p) = <<FALSE, FALSE>>) =>
       /\ last'.ok /\ last'.ran
       /\ Flags(executionPlans', p) = <<TRUE, FALSE>>
       /\ UNCHANGED <<activePlanId, currentMode>>
  \* completePlan fails, step 2 being incomplete, and the plan stays active
  /\ (/\ last'.op = "completePlan" /\ TraceRunning(p)
      /\ Flags(executionPlans, p) = <<TRUE, FALSE>>) =>
       /\ ~last'.ok /\ last'.err = "Not all steps are completed"
       /\ UNCHANGED planVars
  \* execute step 2: succeeds
  /\ (/\ last'.op = "executePlanStep" /\ last'.stepId = 2 /\ TraceRunning(p)
      /\ Flags(executionPlans, p) = <<TRUE, FALSE>>) =>
       /\ last'.ok /\ last'.ran
       /\ Flags(executionPlans', p) = <<TRUE, TRUE>>
       /\ UNCHANGED <<activePlanId, currentMode>>
  \* completePlan succeeds and the active-plan reference becomes null
  /\ (/\ last'.op = "completePlan" /\ TraceRunning(p)
      /\ Flags(executionPlans, p) = <<TRUE, TRUE>>) =>
       /\ last'.ok
       /\ activePlanId' = 0
       /\ UNCHANGED <<executionPlans, currentMode>>
\* C13: the end-to-end trace holds, each call of it having the stated outcome
\* in the state the calls before it lead to: a plan created with 2 steps is
\* unapproved with no step completed; approvePlan approves it and makes it
\* active; switchMode to act leaves the plans alone; executePlanStep of step 1
\* succeeds and completes step 1 only; completePlan then fails with "Not all
\* steps are completed" and the plan stays active; executePlanStep of step 2
\* succeeds; completePlan then succeeds and the active-plan reference is null.
C13_EndToEndTrace == [][C13_Step]_vars

\* the end of the trace: completePlan has succeeded in act mode on a plan of
\* two steps, both completed, and no plan is active
C13_Witness ==
  /\ last.op = "completePlan" /\ last.ok
  /\ TwoSteps(executionPlans, last.planId)
  /\ executionPlans[last.planId].approved
  /\ Flags(executionPlans, last.planId) = <<TRUE, TRUE>>
  /\ currentMode = "act"
  /\ activePlanId = 0

C14_Step ==
  last'.op = "validateModeForOperation" =>
    LET kind == last'.operation IN
    /\ kind \in {"file_read", "file_list", "file_search"} => last'.ok
    /\ kind \in {"file_write", "file_modify", "file_delete", "command_execute"} =>
         (last'.ok <=> currentMode = "act")
    /\ kind \notin {"file_read", "file_list", "file_search", "file_write",
                    "file_modify", "file_delete", "command_execute"} => ~last'.ok
    /\ last'.err = ""
    /\ UNCHANGED planVars
\* C14: validateModeForOperation returns true for file_read, file_list and
\* file_search in both modes; for file_write, file_modify, file_delete and
\* command_execute it returns true exactly when the mode is act; for any
\* other operation type it returns false and throws nothing; it changes
\* neither the mode nor any plan state.
C14_ValidateModeForOperation == [][C14_Step]_vars

\* a write has been denied in plan mode while a plan is approved and active
C14_Witness ==
  /\ last.op = "validateModeForOperation"
  /\ last.operation = "file_write" /\ ~last.ok
  /\ currentMode = "plan"
  /\ activePlanId \in DOMAIN executionPlans

\* C15: the mode starts as plan, and after any sequence of switchMode calls
\* the currentMode of the agent's context (what ClineAgent.getMode returns and
\* tool executors are handed) equals the mode of the ModeManager, which is
\* the target of the last switchMode call.
C15_ModeInSync ==
  /\ last.op = "new" => currentMode = "plan"
  /\ ctxMode = currentMode

\* the call a dispatchToolCall or toolReturns step is about
StepCall == response.toolCalls[last'.index]
IsDispatch == last'.op = "dispatchToolCall"
IsReturn == last'.op = "toolReturns"
\* the message processMessage has pushed last
LastMessage == conversationHistory[Len(conversationHistory)]

C16_Step ==
  /\ (/\ IsDispatch
      /\ StepCall.name \in {"write_file", "modify_file", "delete_file", "execute_command"}
      /\ StepCall.arguments = "object") =>
       /\ last'.ran /\ last'.ok
       /\ running' = last'.index
  /\ (IsReturn /\ StepCall.name = "write_file" /\ StepCall.arguments = "object") =>
       /\ last'.ok
       /\ ToolPath \in disk'
  /\ (IsReturn /\ StepCall.name = "delete_file" /\ StepCall.arguments = "object") =>
       /\ last'.ok <=> ToolPath \in disk
       /\ ToolPath \notin disk'
\* C16: the tool dispatch of processMessage does not consult the mode: a call
\* of write_file, modify_file, delete_file or execute_command with usable
\* arguments has its executor invoked whatever the mode of the ModeManager
\* and of the agent's context is, and the executor acts on the files in plan
\* mode as it does in act mode.
C16_DispatchIgnoresMode == [][C16_Step]_vars

\* write_file has written the file while both modes were plan
C16_Witness ==
  /\ last.op = "toolReturns" /\ last.name = "write_file" /\ last.ok
  /\ ToolPath \in disk
  /\ currentMode = "plan" /\ ctxMode = "plan"

C17_Step ==
  /\ (last'.op = "getAIResponse" /\ ~last'.ok) =>
       /\ pc \in {"first", "final"}
       /\ Len(conversationHistory') = Len(conversationHistory) + 1
       /\ SubSeq(conversationHistory', 1, Len(conversationHistory)) = conversationHistory
       /\ LET m == conversationHistory'[Len(conversationHistory')]
          IN /\ m.role = "assistant" /\ m.content = errorMessage
             /\ m.toolCalls = << >> /\ m.toolResults = << >>
       /\ returned' = [raised |-> FALSE, value |-> errorMessage]
       /\ pc' = "idle" /\ running' = 0
       /\ response' = NoResponse /\ toolResults' = << >>
  /\ last'.op = "processMessage" =>
       /\ Len(conversationHistory') = Len(conversationHistory) + 1
       /\ conversationHistory'[Len(conversationHistory')].role = "user"
       /\ pc' = "first"
\* C17: processMessage never throws to its caller: when the first or the
\* second getAIResponse of a turn fails, exactly one assistant message with
\* the error text is appended as the last entry of the history, that text is
\* returned, and the agent is left idle with no call pending, so that the next
\* processMessage call starts a turn like any other.
C17_ModelFailure ==
  /\ ~returned.raised
  /\ [][C17_Step]_vars

\* the second model invocation of a turn with tool calls has failed, and the
\* turn after it has returned the text of the model
C17_Witness ==
  /\ pc = "idle"
  /\ \E k \in 2 .. Len(conversationHistory) - 2 :
       /\ conversationHistory[k - 1].toolCalls # << >>
       /\ conversationHistory[k].content = errorMessage
       /\ conversationHistory[k + 1].role = "user"
       /\ conversationHistory[k + 2].role = "assistant"
       /\ conversationHistory[k + 2].content.kind = "model"
       /\ returned = [raised |-> FALSE, value |-> conversationHistory[k + 2].content]

\* result r is one call c can have
ResultOf(c, r) ==
  IF c.name \notin ToolNames THEN r = [success |-> FALSE, error |-> "Unknown tool"]
  ELSE IF c.arguments # "object"
  THEN r = [success |-> FALSE, error |-> "Tool execution failed"]
  ELSE r.error \in {"", "File does not exist", "Command failed"}
C18_Step ==
  \* earlier entries are never changed, and one entry is appended at a time
  /\ \/ conversationHistory' = conversationHistory
     \/ /\ Len(conversationHistory') = Len(conversationHistory) + 1
        /\ SubSeq(conversationHistory', 1, Len(conversationHistory)) = conversationHistory
  \* the user message is appended first
  /\ pc' = "first" =>
       /\ conversationHistory' # conversationHistory
       /\ conversationHistory'[Len(conversationHistory')].role = "user"
  \* nothing is appended until the last result is there
  /\ (pc = "first" /\ pc' = "tools") =>
       /\ response'.toolCalls # << >>
       /\ toolResults' = << >>
       /\ UNCHANGED conversationHistory
  /\ (pc = "tools" /\ pc' = "tools") =>
       /\ UNCHANGED <<conversationHistory, response>>
       /\ \/ toolResults' = toolResults
          \/ /\ Len(toolResults') = Len(toolResults) + 1
             /\ SubSeq(toolResults', 1, Len(toolResults)) = toolResults
             /\ last'.index = Len(toolResults')
             /\ ResultOf(StepCall, toolResults'[last'.index])
  \* then the assistant message with the narrative, the calls and the results
  /\ (pc = "tools" /\ pc' = "final") =>
       LET m == conversationHistory'[Len(conversationHistory')] IN
       /\ conversationHistory' # conversationHistory
       /\ LastMessage.role = "user"
       /\ m.role = "assistant"
       /\ m.content = response.content
       /\ m.toolCalls = response.toolCalls
       /\ Len(m.toolResults) = Len(m.toolCalls)
       /\ SubSeq(m.toolResults, 1, Len(toolResults)) = toolResults
       /\ last'.index = Len(m.toolCalls)
       /\ \A i \in DOMAIN m.toolCalls : ResultOf(m.toolCalls[i], m.toolResults[i])
  \* then the final assistant message, whose content is returned
  /\ (pc = "final" /\ pc' = "idle") =>
       LET m == conversationHistory'[Len(conversationHistory')] IN
       /\ conversationHistory' # conversationHistory
       /\ LastMessage.toolCalls # << >>
       /\ m.role = "assistant"
       /\ m.toolCalls = << >> /\ m.toolResults = << >>
       /\ returned' = [raised |-> FALSE, value |-> m.content]
  /\ pc = "final" => pc' \in {"final", "idle"}
\* C18: in a turn whose first response has calls, processMessage appends to
\* the history, in this order and without changing an earlier entry: the user
\* message, one assistant message with the narrative, the calls and the
\* results, and one final assistant message whose content is the text
\* returned; the results are as many as the calls, and result i is the result
\* of call i.
C18_ToolTurnHistory ==
  /\ \A k \in DOMAIN conversationHistory :
       /\ Len(conversationHistory[k].toolResults) = Len(conversationHistory[k].toolCalls)
       /\ \A i \in DOMAIN conversationHistory[k].toolCalls :
            ResultOf(conversationHistory[k].toolCalls[i],
                     conversationHistory[k].toolResults[i])
  /\ [][C18_Step]_vars

\* a turn with two calls is over: the history holds the user message, the
\* assistant message with an unknown tool's failure first and the write's
\* success second, and the final message with the text returned
C18_Witness ==
  /\ pc = "idle" /\ Len(conversationHistory) = 3
  /\ conversationHistory[1].role = "user"
  /\ conversationHistory[2].role = "assistant"
  /\ conversationHistory[2].content.kind = "model"
  /\ Len(conversationHistory[2].toolCalls) = 2
  /\ conversationHistory[2].toolCalls[1].name = "no_such_tool"
  /\ conversationHistory[2].toolCalls[2].name = "write_file"
  /\ conversationHistory[2].toolResults =
       <<[success |-> FALSE, error |-> "Unknown tool"], [success |-> TRUE, error |-> ""]>>
  /\ conversationHistory[3].content.kind = "model"
  /\ conversationHistory[3].content # conversationHistory[2].content
  /\ returned.value = conversationHistory[3].content

C19_Step ==
  \* calls are taken in array order, and only when no executor is awaited
  /\ IsDispatch =>
       /\ running = 0
       /\ last'.index = Len(toolResults) + 1
  \* the result of the awaited executor is the next result
  /\ IsReturn =>
       /\ running = Len(toolResults) + 1
       /\ last'.index = running
       /\ running' = 0
       \* and the executor has seen the files the calls before it left
       /\ (StepCall.arguments = "object" /\ StepCall.name \in {"read_file", "modify_file", "delete_file"}) =>
            (last'.ok <=> ToolPath \in disk)
       /\ (StepCall.arguments = "object" /\ StepCall.name = "read_file" /\ last'.ok) =>
            recentFiles' = IF Includes(recentFiles, ToolPath) THEN recentFiles
                           ELSE <<ToolPath>> \o recentFiles
  \* between two executors nothing else touches the session's files
  /\ ~IsReturn => UNCHANGED <<disk, recentFiles>>
\* C19: within one batch the calls are dispatched in array order and never
\* concurrently: a call is dispatched only when every call before it has its
\* result and no executor is awaited, so the executor of call i+1 sees the
\* files and the recent-files list as the executor of call i left them.
C19_SequentialDispatch ==
  /\ running # 0 => (pc = "tools" /\ running = Len(toolResults) + 1)
  /\ [][C19_Step]_vars

\* in the first turn of a run, on an empty directory, write_file then
\* read_file were issued in one batch and both succeeded
C19_Witness ==
  /\ pc = "final" /\ Len(conversationHistory) = 2
  /\ LastMessage.toolCalls = <<[name |-> "write_file", arguments |-> "object"],
                               [name |-> "read_file", arguments |-> "object"]>>
  /\ LastMessage.toolResults[1].success /\ LastMessage.toolResults[2].success
  /\ recentFiles = <<ToolPath>>

\* the step pushes the result of the call it is about
Pushes(result) ==
  IF pc' = "tools" THEN toolResults' = Append(toolResults, result)
  ELSE /\ pc' = "final"
       /\ conversationHistory'[Len(conversationHistory')].toolResults =
            Append(toolResults, result)
C20_Step ==
  LET failed(error) == [success |-> FALSE, error |-> error] IN
  \* an unknown tool
  /\ (IsDispatch /\ StepCall.name \notin ToolNames) =>
       /\ ~last'.ran
       /\ Pushes(failed("Unknown tool"))
  \* a payload that does not parse
  /\ (IsDispatch /\ StepCall.name \in ToolNames /\ StepCall.arguments = "undefined") =>
       /\ ~last'.ran
       /\ Pushes(failed("Tool execution failed"))
  \* an executor that throws
  /\ (IsReturn /\ StepCall.arguments = "null") =>
       /\ Pushes(failed("Tool execution failed"))
       /\ UNCHANGED <<disk, recentFiles>>
  \* a call with usable arguments is dispatched whatever the results before it
  /\ (IsDispatch /\ StepCall.name \in ToolNames /\ StepCall.arguments = "object") =>
       last'.ran
  \* the batch goes on to its end and the turn to the second model invocation
  /\ (IsDispatch \/ IsReturn) =>
       /\ pc' = (IF IsDispatch /\ last'.ran THEN "tools"
                 ELSE IF Len(toolResults) + 1 < Len(response.toolCalls) THEN "tools"
                 ELSE "final")
       /\ UNCHANGED returned
\* C20: a call that names an unknown tool, whose arguments do not parse, or
\* whose executor throws, gets a failed result of its own and nothing else
\* happens: the other calls of the batch are dispatched, the turn goes on to
\* the second model invocation, and processMessage does not throw.
C20_ToolFailureIsLocal ==
  /\ ~returned.raised
  /\ pc = "final" => Len(LastMessage.toolResults) = Len(LastMessage.toolCalls)
  /\ [][C20_Step]_vars

\* a batch whose first call had an unparsable payload and whose second call
\* wrote the file, in a turn that returned the text of the model
C20_Witness ==
  /\ pc = "idle" /\ Len(conversationHistory) = 3
  /\ conversationHistory[2].toolCalls =
       <<[name |-> "write_file", arguments |-> "undefined"],
         [name |-> "write_file", arguments |-> "object"]>>
  /\ conversationHistory[2].toolResults =
       <<[success |-> FALSE, error |-> "Tool execution failed"],
         [success |-> TRUE, error |-> ""]>>
  /\ ToolPath \in disk
  /\ returned.value.kind = "model"

C21_Step ==
  \* the model is invoked at two places of a turn, once each
  /\ last'.op = "getAIResponse" =>
       /\ pc \in {"first", "final"}
       /\ pc = "first" => pc' \in {"tools", "idle"}
       /\ pc = "final" => pc' = "idle"
  /\ pc = "tools" => pc' \in {"tools", "final"}
  /\ pc = "idle" => pc' \in {"idle", "first"}
  \* executors are started and awaited between the two invocations only
  /\ (IsDispatch \/ IsReturn) => pc = "tools"
  /\ pc = "final" =>
       /\ running = 0 /\ running' = 0
       /\ UNCHANGED <<disk, recentFiles, toolResults>>
\* C21: a turn makes at most two model invocations, and the calls of the
\* second response are never dispatched: after the second invocation the turn
\* ends, no executor is started and the session's files are not touched.
C21_TwoInvocations ==
  /\ pc \in {"idle", "first", "final"} => running = 0
  /\ [][C21_Step]_vars

\* the second response of a turn carried a call; the turn has ended with the
\* final message and that call has no result anywhere
C21_Witness ==
  /\ last.op = "getAIResponse" /\ last.ok
  /\ pc = "idle" /\ Len(conversationHistory) >= 3
  /\ conversationHistory[Len(conversationHistory) - 1].toolCalls # << >>
  /\ last.calls > 0
  /\ LastMessage.toolCalls = << >> /\ LastMessage.toolResults = << >>
  /\ running = 0

\* the payload of the one TOOL_CALLS marker of s: where the marker is and the
\* JSON value read after it
ToolCallsPayload(s) ==
  CHOOSE b \in {[from |-> i, value |-> ParseValue(s, i + 1)] : i \in Indices(s, "TOOL_CALLS:")} :
    TRUE
IsCallElement(v) ==
  /\ v.kind = "obj"
  /\ Property(v, "name").kind = "str"
  /\ Property(v, "arguments").kind # "undefined"
\* the payload after the TOOL_CALLS marker of s is a JSON array of
\* {name, arguments} objects
CallsPayloadParses(s) ==
  /\ Cardinality(Indices(s, "TOOL_CALLS:")) = 1
  /\ \A b \in {ToolCallsPayload(s)} :
       /\ b.value.ok /\ b.value.val.kind = "arr"
       /\ \A k \in DOMAIN b.value.val.items : IsCallElement(b.value.val.items[k])
\* C22: when the text holds the TOOL_CALLS: marker followed by a JSON array
\* of {name, arguments} objects that parses (nested arrays in the arguments
\* and the empty array included) and no other directive, the block is
\* removed from the narrative and there is exactly one ToolCall per element,
\* in array order, with the element's name and arguments.
C22_Extraction ==
  (CallsPayloadParses(text) /\ Indices(text, "CREATE_PLAN:") = {}) =>
    \A b \in {ToolCallsPayload(text)} :
       /\ extracted.content = Trim(Cut(text, b.from, b.value.next - 1))
       /\ Len(extracted.toolCalls) = Len(b.value.val.items)
       /\ \A k \in DOMAIN b.value.val.items :
            /\ extracted.toolCalls[k].name = Property(b.value.val.items[k], "name").v
            /\ extracted.toolCalls[k].arguments =
                 JSONstringify(Property(b.value.val.items[k], "arguments"))

\* some TOOL_CALLS marker of s is followed by a JSON array
CallsDirectiveParses(s) ==
  \E i \in Indices(s, "TOOL_CALLS:") :
    \E p \in {ParseValue(s, i + 1)} : p.ok /\ p.val.kind = "arr"
\* some CREATE_PLAN marker of s is followed by a JSON object
PlanDirectiveParses(s) ==
  \E i \in Indices(s, "CREATE_PLAN:") :
    \E p \in {ParseValue(s, i + 1)} : p.ok /\ p.val.kind = "obj"
C24_IdsDistinct == NoDuplicates(emitted)

IsConfirm == last'.op \in ConfirmationMethods \cup {"confirmToolExecution"}
C25_Step ==
  /\ last'.op = "setAutoApprove" => autoApprove' = last'.value /\ prompts' = prompts
  /\ (IsConfirm /\ autoApprove) =>
       /\ last'.ok /\ last'.asked = 0
       /\ prompts' = prompts
       /\ autoApprove'
\* C25: while autoApprove is true, confirmToolExecution,
\* confirmDestructiveOperation, confirmPlanExecution, confirmModeSwitch,
\* confirmFileOverwrite, confirmDirectoryCreation and confirmExit return true
\* without invoking the prompt, whatever their arguments and whatever the
\* setAutoApprove calls before the last one, which set it to true.
C25_AutoApprove == [][C25_Step]_vars

\* the prompt was used once while autoApprove was false; after
\* setAutoApprove(true) confirmExit returned true though the user would have
\* answered no
C25_Witness ==
  /\ last.op = "confirmExit" /\ autoApprove
  /\ last.ok /\ ~last.value /\ last.asked = 0
  /\ prompts = 1

C26_Step ==
  (last'.op = "confirmToolExecution" /\ ~autoApprove) =>
    /\ IF last'.name \in {"write_file", "modify_file", "delete_file",
                          "execute_command", "execute_interactive_command"}
       THEN /\ last'.asked = 1 /\ prompts' = prompts + 1
            /\ last'.ok = last'.value
       ELSE /\ last'.asked = 0 /\ prompts' = prompts
            /\ last'.ok
    /\ autoApprove' = autoApprove
\* C26: while autoApprove is false, confirmToolExecution for write_file,
\* modify_file, delete_file, execute_command or execute_interactive_command
\* invokes the prompt exactly once and returns the user's answer; for any
\* other tool name it returns true without the prompt; autoApprove stays as
\* it is.
C26_DestructiveToolsAsk == [][C26_Step]_vars

\* delete_file was asked about once and the user's no was returned
C26_Witness ==
  /\ last.op = "confirmToolExecution" /\ last.name = "delete_file"
  /\ ~autoApprove /\ last.asked = 1 /\ ~last.ok /\ ~last.value
  /\ rendered.parsed

\* C27: of the arguments the gate renders before it prompts, every string
\* longer than 100 characters is shown as its first 100 characters, whatever
\* the name of the argument.
C27_TruncatesEveryString ==
  \A i \in DOMAIN rendered.lines :
    (rendered.lines[i].value.type = "string"
     /\ rendered.lines[i].value.length > PreviewLength) =>
      rendered.lines[i].shown = PreviewLength

C28_Step ==
  /\ (last'.op = "saveConversation" /\ last'.ok) =>
       readJson(savedFiles'[last'.path]) = conversationHistory
  /\ (last'.op = "loadConversation" /\ last'.ok) =>
       conversationHistory' = readJson(savedFiles[last'.path])
\* C28: the history a load of a saved file yields equals the history that was
\* saved, message by message and in order: role, content, timestamp (value
\* and kind of value), tool calls and tool results.
C28_RoundTrip == [][C28_Step]_vars

\* the histories that differ from history in the tool results of its last
\* message only
OtherResults(history) ==
  LET n == Len(history) IN
  {[history EXCEPT ![n].toolResults = results] :
     results \in [DOMAIN history[n].toolResults ->
                    {Succeeded, Failed("Tool execution failed")}]}
  \ {history}
C29_Step ==
  (last'.op = "getAIResponse" /\ pc = "final") =>
    \A other \in OtherResults(conversationHistory) :
      chatHistory(other) # last'.input
\* C29: the input of the second model invocation of a turn is built from the
\* history with the tool results just appended, so a turn that differs in
\* its tool results only sends a different input on its second invocation.
C29_ResultsReachModel == [][C29_Step]_vars

\* what C30 says of a getPlanProgress step, but for the percentage 100
C30_Counts ==
  last'.op = "getPlanProgress" =>
    /\ UNCHANGED <<configVars, fileVars, turnVars, extractVars, confirmVars, savedFiles, ctxMode,
                   agentModeManager, planVars>>
    /\ last'.ok
    /\ IF last'.planId \notin DOMAIN executionPlans
          \/ executionPlans[last'.planId].steps = << >>
       THEN last'.completed = 0 /\ last'.total = 0 /\ last'.percentage = 0
       ELSE LET steps == executionPlans[last'.planId].steps IN
            /\ last'.completed = Cardinality({i \in DOMAIN steps : steps[i].completed})
            /\ last'.total = Len(steps)
            /\ 0 <= last'.completed /\ last'.completed <= last'.total
            /\ 0 <= last'.percentage /\ last'.percentage <= 100
            \* no integer is nearer to 100 * completed / total
            /\ 2 * last'.total * last'.percentage - 200 * last'.completed <= last'.total
            /\ 200 * last'.completed - 2 * last'.total * last'.percentage <= last'.total
C30_Step ==
  /\ C30_Counts
  /\ (last'.op = "getPlanProgress" /\ last'.total > 0) =>
       /\ last'.completed = last'.total => last'.percentage = 100
       /\ last'.percentage = 100 => 200 * last'.completed >= 199 * last'.total
\* C30 (amended): getPlanProgress(id) changes no state and never fails; for an
\* unknown id or a plan without steps it returns zeros; otherwise completed
\* is the number of completed steps, total the number of steps,
\* 0 <= completed <= total, percentage is an integer nearest to
\* 100 * completed / total, between 0 and 100, it is 100 when all steps are
\* completed, and when it is 100 at most half a percent of the steps is not
\* completed.
C30_PlanProgress == [][C30_Step]_vars

\* the progress of a plan of three steps, two of them completed, is 67
C30_Witness ==
  /\ last.op = "getPlanProgress"
  /\ last.completed = 2 /\ last.total = 3 /\ last.percentage = 67

C30_OriginalStep ==
  /\ C30_Counts
  /\ (last'.op = "getPlanProgress" /\ last'.total > 0) =>
       (last'.percentage = 100 <=> last'.completed = last'.total)
\* C30 as stated: the same, with percentage 100 exactly when all steps are
\* completed.
C30_PlanProgressOriginal == [][C30_OriginalStep]_vars

IsCreatePlanReturn == last.op = "toolReturns" /\ last.name = "create_plan"
\* C31: in the system as the CLI wires it, a create_plan call with title,
\* description and steps present that processMessage dispatches returns a
\* successful ToolResult carrying the new plan id, and that plan is then in
\* the store, unapproved.
C31_Step ==
  (/\ IsCreatePlanReturn'
   /\ ~planDataInvalid(response.toolCalls[running].planData)) =>
    /\ last'.ok
    /\ last'.planId \notin DOMAIN executionPlans
    /\ last'.planId \in DOMAIN executionPlans'
    /\ ~executionPlans'[last'.planId].approved
C31_CliCreatePlan == [][C31_Step]_vars

\* C32: while the mode is plan, the executors of write_file, modify_file,
\* delete_file, execute_command, execute_interactive_command and run_tests
\* are never invoked by the tool dispatch of processMessage.
C32_Step ==
  (/\ IsDispatch /\ last'.ran
   /\ StepCall.name \in {"write_file", "modify_file", "delete_file", "execute_command",
                         "execute_interactive_command", "run_tests"}) =>
    currentMode # "plan"
C32_PlanModeReadOnly == [][C32_Step]_vars

\* C33: with autoApprove false, no tool whose registry entry has
\* requiresApproval = true has its executor invoked by processMessage unless
\* the user was asked about the call by the confirmation gate before.
C33_Step ==
  (IsDispatch /\ last'.ran /\ requiresApproval(StepCall.name) /\ ~autoApprove) =>
    prompts > 0
C33_ApprovalBeforeExecution == [][C33_Step]_vars

\* C34: when the toggle-auto-approve command ends, the autoApprove value
\* stored in the config file is the negation of the value stored there when
\* the command started, and the stored API key and model are the ones stored
\* then, however the steps of the pending loadConfig fall between the steps
\* of the command.
C34_ToggleInverts ==
  (command.at = "done" /\ command.before.exists) =>
    /\ configFile.data.autoApprove = ~command.before.data.autoApprove
    /\ configFile.data.geminiApiKey = command.before.data.geminiApiKey
    /\ configFile.data.model = command.before.data.model

\* C35: the active-plan reference is null or the id of a plan that is in the
\* store and approved; the approved flag of a plan never goes from true back
\* to false; and a plan leaves the store only through rejectPlan of its id.
C35_Step ==
  /\ activePlanId' = 0 \/
       (activePlanId' \in DOMAIN executionPlans' /\ executionPlans'[activePlanId'].approved)
  /\ \A p \in DOMAIN executionPlans :
       /\ (p \in DOMAIN executionPlans' /\ executionPlans[p].approved) =>
            executionPlans'[p].approved
       /\ p \notin DOMAIN executionPlans' =>
            (last'.op = "rejectPlan" /\ last'.planId = p /\ last'.ok)
C36_Step ==
  (last'.op = "completePlan" /\ last'.ok) => executionPlans[last'.planId].approved
C36_CompleteOnlyApproved == [][C36_Step]_vars

\* C37: the extraction of one model response is all or nothing: when the
\* returned call list is not empty, every directive block found in the text
\* (TOOL_CALLS and CREATE_PLAN) is gone from the returned narrative and
\* every element of the TOOL_CALLS array has a call in the list.
C37_AllOrNothing ==
  extracted.toolCalls # << >> =>
    /\ toolCallsBlockMatch(text).found => ~toolCallsBlockMatch(extracted.content).found
    /\ planMatch(text).found => ~planMatch(extracted.content).found
    /\ \A m \in {toolCallsBlockMatch(text)} :
         \A parsed \in {JSONparse(m.group)} :
           (m.found /\ parsed.ok) =>
             Cardinality({k \in DOMAIN extracted.toolCalls :
                            extracted.toolCalls[k].id.prefix = "call"})
               = Len(parsed.val.items)

\* C38: when the second model invocation of a turn fails after the batch was
\* dispatched, the assistant message with the calls and their results stays
\* in the history, right before the error message, and the files and the
\* recentFiles list are as the executors left them.
C38_Step ==
  (last'.op = "getAIResponse" /\ ~last'.ok /\ pc = "final") =>
    /\ Len(conversationHistory') = Len(conversationHistory) + 1
    /\ SubSeq(conversationHistory', 1, Len(conversationHistory)) = conversationHistory
    /\ LET held == conversationHistory'[Len(conversationHistory') - 1]
           m == conversationHistory'[Len(conversationHistory')]
       IN /\ held.role = "assistant" /\ held.toolCalls # << >>
          /\ Len(held.toolResults) = Len(held.toolCalls)
          /\ m.role = "assistant" /\ m.content = errorMessage
    /\ UNCHANGED <<disk, recentFiles>>
C38_FailureKeepsToolTurn == [][C38_Step]_vars

\* the second invocation has failed after write_file wrote the file: the
\* message with the call and its successful result precedes the error
\* message, the file is on disk and leads recentFiles
C38_Witness ==
  /\ last.op = "getAIResponse" /\ ~last.ok
  /\ Len(conversationHistory) >= 3
  /\ LET held == conversationHistory[Len(conversationHistory) - 1]
     IN /\ held.toolCalls # << >>
        /\ held.toolCalls[1].name = "write_file"
        /\ held.toolResults[1].success
  /\ LastMessage.content = errorMessage
  /\ ToolPath \in disk
  /\ recentFiles # << >> /\ recentFiles[1] = ToolPath

\* C39: executePlanStep does not depend on the active-plan reference: in act
\* mode, on a step not yet completed of an approved plan of the store that is
\* not the active plan (after cancelActivePlan, after the approval of another
\* plan, after completePlan), the step executor is invoked and the step is
\* set completed as for the active plan; the reference is left as it is.
C39_Step ==
  (ExecOnStep /\ activePlanId # last'.planId /\ currentMode = "act"
   /\ ~ExecStep.completed) =>
    /\ last'.ran
    /\ last'.ok <=> ExecStep.type \in StepTypes
    /\ executionPlans' =
         IF last'.ok
         THEN [executionPlans EXCEPT
                 ![last'.planId].steps[StepIndex(executionPlans, last'.planId,
                                                 last'.stepId)].completed = TRUE]
         ELSE executionPlans
    /\ activePlanId' = activePlanId
C39_ExecIgnoresActivePlan == [][C39_Step]_vars

\* a step of an approved plan has been completed by the last call while
\* another plan is the active one
C39_Witness ==
  /\ last.op = "executePlanStep" /\ last.ran /\ last.ok
  /\ activePlanId # 0 /\ activePlanId # last.planId
  /\ last.planId \in DOMAIN executionPlans
  /\ \E i \in DOMAIN executionPlans[last.planId].steps :
       /\ executionPlans[last.planId].steps[i].id = last.stepId
       /\ executionPlans[last.planId].steps[i].completed

====
